---- MODULE Spec2Model ----
(***************************************************************************)
(* The bridge synchronization engine of watgbridge.                        *)
(*                                                                         *)
(* Part I  models src/TelegramBridge.js (first bridge class, lines 16 to   *)
(*         2336): the topic lifecycle (getOrCreateTopic, verifyTopicExists,*)
(*         saveChatMapping, recreateMissingTopics) as it is driven by      *)
(*         concurrent syncMessage invocations.  Every `await` of the       *)
(*         source is a suspension point: a handler's position (pc) is the  *)
(*         await it is suspended at, and one action runs the code from one *)
(*         await's completion to the next await.  Awaits whose code reads  *)
(*         and writes none of the modelled state (createUserMapping,       *)
(*         groupMetadata, sendWelcomeMessage, the pauses) are passed       *)
(*         within the action that follows them: no other handler can       *)
(*         observe where inside such a stretch a handler is.               *)
(* Part II models src/telegram/bridge.js: the interval-driven message      *)
(*         queue and the handlers that call getOrCreateTopic.              *)
(* Part III models the access gate of src/TelegramBridge.js: isAuthorized, *)
(*         checkRateLimit and the 'message' handler that applies them.     *)
(* Part IV models its message index (saveMessageMapping) and the revoke    *)
(*         buttons (handleCallbackQuery, handleMessageReaction).           *)
(***************************************************************************)
EXTENDS Integers, Sequences, FiniteSets, TLC

\* ---------------------------------------------------------------- bounds
\* WhatsApp events handled by TelegramBridge.js syncMessage (one handler each).
MaxMsgs == 2
\* createForumTopic calls that may succeed in TelegramBridge.js.
MaxTopics == 3
\* Forum topics that may be deleted in Telegram behind the bridge's back.
MaxDeletes == 1
\* Tasks pushed onto the messageQueue of telegram/bridge.js.
MaxTasks == 3
\* 'call' events handled by telegram/bridge.js.
MaxCalls == 2
\* Telegram users that write to the bot (user 1 is the configured owner).
MaxUsers == 2
\* telegram.rateLimit.messages: messages a user may send within one window.
MaxCount == 2
\* telegram.rateLimit.window, in clock ticks.
WindowMs == 1
\* Clock ticks that pass (Date.now() starts at 0).
MaxTime == 2
\* Messages beyond the limit that a user sends within one window.
MaxExcess == 1
\* Telegram topic messages relayed to WhatsApp by TelegramBridge.js.
MaxRelays == 2
\* callback_query events (presses of a revoke button).
MaxCallbacks == 2

\* syncMessage calls made while initialize is at one of its steps.
MaxSyncs == 2

\* setTimeout calls made by the presence, read-receipt and call handlers.
MaxTimers == 3
\* 'call' events handled by TelegramBridge.js.
MaxCallEvents == 2

\* Payload fields populated in one WhatsApp message.
MaxPayloads == 2

\* Incoming messages that reach createUserMapping.
MaxUserMsgs == 3

\* Messages whose relay is followed from its handler to its end.
MaxTgMsgs == 2

\* Inbound events that arrive while initialize runs.
MaxInbound == 2

\* this.maxPollingRetries (5 in the source), the restartTelegramBot calls
\* followed, and the polling errors counted.
MaxPollingRetries == 2
MaxRestarts == 3
MaxPollingErrors == 5

\* The message keys queued for read receipts in one chat.
MaxKeys == 3

\* The contact-sync ticks and the typing resets followed around a shutdown.
MaxSyncTicks == 1
MaxTypingResets == 1

\* The handleMentionAll calls followed for one group.
MaxMentions == 2

\* ---------------------------------------------------------------- values
PrivateJid == "1@s.whatsapp.net"
GroupJid == "1@g.us"
CallJid == "call@broadcast"
JIDs == {PrivateJid, GroupJid}
\* chatJid.endsWith('@g.us')
IsGroup(j) == j = GroupJid
\* null topic id / absent value
None == 0
\* absent jid (Map.get gives undefined)
NoJid == "undefined"

Handlers == 1..MaxMsgs
\* the process running syncWhatsAppConnection -> recreateMissingTopics
Recreator == 0
Procs == {Recreator} \cup Handlers

VARIABLES
    chatMappings,   \* Map jid -> topic id, as its entry list in insertion order
    dbChat,         \* the 'chat' documents of the durable collection
    topicsLive,     \* forum topics that exist on Telegram
    created,        \* history: one entry per successful createForumTopic
    proc,           \* per handler: the await it is suspended at, and its locals
    rIdx,           \* recreateMissingTopics: entries the Map iterator has passed
    toRecreate,     \* recreateMissingTopics: the toRecreate array (pending part)
    \* src/telegram/bridge.js
    messageQueue,   \* this.messageQueue: the queued tasks, oldest first
    isProcessingQueue,
    bproc,          \* per queued task and per call handler: position and locals
    started,        \* history: the tasks in the order the consumer started them
    bChatMappings,  \* chatMappings of bridge.js: jid -> topic id (None: absent)
    topicMappings,  \* topic id -> jid (NoJid: absent)
    bCreated,       \* history: the jid of each topic createForumTopic made
    activeCallNotifications,
    \* src/TelegramBridge.js, the access gate
    authorizedUsers,
    blockedUsers,
    rateLimiter,    \* Map `${userId}_message` -> {count, resetTime} (NoEntry: absent)
    now,            \* Date.now()
    calls,          \* history: per user, the window its calls fall in and their number
    last,           \* history: what the message handler did with the last message
    \* src/TelegramBridge.js, message index and revocation
    messageIdMapping,  \* Map Telegram message id -> WhatsApp key (None: absent)
    dbMessage,      \* the 'message' documents of the durable collection
    revokeButtons,  \* Map button id -> WhatsApp key, as the set of its entries
    rproc,          \* per relayed Telegram message: await position and locals
    cproc,          \* per callback_query: await position and locals
    deletes,        \* history: per WhatsApp key, the deletes issued for it
    replies,        \* history: what was sent back to requesters the gate rejected
    reacted,        \* history: Telegram message ids whose reaction reached WhatsApp
    \* src/TelegramBridge.js, start-up
    config,         \* telegram.botToken, telegram.chatId, telegram.ownerId, telegram.enabled
    telegramBot,    \* this.telegramBot is set
    collection,     \* this.collection is set
    handlersSet,    \* setupTelegramHandlers has registered the handlers
    ipc,            \* initialize: the await it is suspended at
    syncCalls,      \* history: syncMessage calls made
    synced,         \* history: syncMessage calls that went past the guard of line 804
    \* src/TelegramBridge.js, debounce timers
    timers,         \* the pending timeouts of the event loop: [id, kind, key]
    nextTimer,      \* the handle the next setTimeout returns
    presenceTimeout,  \* this.presenceTimeout: a timer handle (None: null)
    awaitingPause,  \* history: chats shown as typing whose 'paused' is still due
    readQueue,      \* this.messageQueue: per chat, the message keys queued
    reading,        \* processReadReceipts calls suspended at readMessages
    activeCallKeys, \* this.activeCallNotifications: the call keys it holds
    epoch,          \* history: per call key, how often its 30 s timer has fired
    callProc,       \* per 'call' event: await position and locals
    callNotices,    \* history: the call notifications sent, as [key, epoch]
    \* WhatsApp to Telegram content relay
    sync,           \* the relay call in progress: await position, entry point, message
    adapters,       \* history: the adapters this call has invoked, in order
    mention,        \* history: how the mention sub-flow of this call went
    groupParticipants,  \* this.groupParticipants: has the group a cached, non-empty list
    \* src/TelegramBridge.js, user mappings
    userMappings,   \* this.userMappings: participant -> its userData object (None: no entry)
    userData,       \* the userData objects, by the message that created them
    dbUser,         \* the documents of type 'user' in the collection, by participant
    uproc,          \* per incoming message: await position and locals of createUserMapping
    \* relay of one message with its acknowledgement
    tproc,          \* per message: handler, content, await position, and the
                    \* history of what the handler has sent where
    \* src/TelegramBridge.js, events during a restart
    inbound,        \* history: the inbound events handled, with what became of them
    \* src/TelegramBridge.js, polling-error recovery
    pollingRetries, \* this.pollingRetries
    pollers,        \* per TelegramBot instance: "none", "polling", "stopping", "stopped"
    currentBot,     \* this.telegramBot: the instance it refers to
    restartProc,    \* per restartTelegramBot call: await position and the bot it stops
    \* src/TelegramBridge.js, the read receipts of one chat, key by key
    receiptArrays,  \* the arrays made for messageQueue.get(chatJid), by identity
    receiptQueue,   \* the array messageQueue holds for the chat now
    receiptProc,    \* per queued key: its timer, then its processReadReceipts call
    readKeys,       \* history: the keys a successful readMessages call included
    \* src/TelegramBridge.js, the ephemeral settings
    ephemeralSettings, \* this.ephemeralSettings: jid -> setting (NoSetting: no entry)
    dbEphemeral,    \* the documents of type 'ephemeral' of the collection, by chatJid
    ephemeralSet,   \* history: per jid, what /ephemeral last left in the cache
    ephemeralLoaded, \* history: the cache was cleared and loaded after the last /ephemeral
    \* src/telegram/bridge.js, shutdown
    shutdownPc,     \* shutdown(): "running" (not called), "stopping", "cleaning", "complete"
    typingTimeouts, \* this.typingTimeouts: the chats with a live typing timeout
    contactSyncTicks, \* history: runs of the contact-sync interval callback
    typingResets,   \* history: runs of a typing timeout's callback
    \* src/TelegramBridge.js, the participants of one group
    participantsCache, \* this.groupParticipants for the group: has an entry, and its list
    mentionProc     \* per handleMentionAll call: await position, local list, fetched list, mentions sent

topicVars == <<chatMappings, dbChat, topicsLive, created, proc, rIdx, toRecreate>>
queueVars == <<messageQueue, isProcessingQueue, bproc, started, bChatMappings,
               topicMappings, bCreated, activeCallNotifications>>
gateVars == <<authorizedUsers, blockedUsers, rateLimiter, now, calls, last>>
revokeVars == <<messageIdMapping, dbMessage, revokeButtons, rproc, cproc, deletes,
                replies, reacted>>
startVars == <<config, telegramBot, collection, handlersSet, ipc, syncCalls, synced>>
timerVars == <<timers, nextTimer, presenceTimeout, awaitingPause, readQueue, reading,
               activeCallKeys, epoch, callProc, callNotices>>
syncVars == <<sync, adapters, mention, groupParticipants>>
userVars == <<userMappings, userData, dbUser, uproc>>
replyVars == <<tproc>>
bootVars == <<inbound>>
pollVars == <<pollingRetries, pollers, currentBot, restartProc>>
receiptVars == <<receiptArrays, receiptQueue, receiptProc, readKeys>>
ephemeralVars == <<ephemeralSettings, dbEphemeral, ephemeralSet, ephemeralLoaded>>
shutdownVars == <<shutdownPc, typingTimeouts, contactSyncTicks, typingResets>>
mentionVars == <<participantsCache, mentionProc>>
vars == <<chatMappings, dbChat, topicsLive, created, proc, rIdx, toRecreate,
          messageQueue, isProcessingQueue, bproc, started, bChatMappings,
          topicMappings, bCreated, activeCallNotifications,
          authorizedUsers, blockedUsers, rateLimiter, now, calls, last,
          messageIdMapping, dbMessage, revokeButtons, rproc, cproc, deletes,
          replies, reacted,
          config, telegramBot, collection, handlersSet, ipc, syncCalls, synced,
          timers, nextTimer, presenceTimeout, awaitingPause, readQueue, reading,
          activeCallKeys, epoch, callProc, callNotices,
          sync, adapters, mention, groupParticipants,
          userMappings, userData, dbUser, uproc, tproc, inbound,
          pollingRetries, pollers, currentBot, restartProc,
          receiptArrays, receiptQueue, receiptProc, readKeys,
          ephemeralSettings, dbEphemeral, ephemeralSet, ephemeralLoaded,
          shutdownPc, typingTimeouts, contactSyncTicks, typingResets,
          participantsCache, mentionProc>>

\* ---------------------------------------------------------------- Map
MapIndex(m, k) ==
    IF \E i \in 1..Len(m) : m[i].jid = k
    THEN CHOOSE i \in 1..Len(m) : m[i].jid = k
    ELSE 0
MapHas(m, k) == MapIndex(m, k) # 0
MapGet(m, k) == IF MapHas(m, k) THEN m[MapIndex(m, k)].topic ELSE None
MapSet(m, k, v) ==
    IF MapHas(m, k)
    THEN [m EXCEPT ![MapIndex(m, k)].topic = v]
    ELSE Append(m, [jid |-> k, topic |-> v])
MapDelete(m, k) ==
    IF MapHas(m, k)
    THEN SubSeq(m, 1, MapIndex(m, k) - 1) \o SubSeq(m, MapIndex(m, k) + 1, Len(m))
    ELSE m
\* A live Map iterator after a delete: an entry removed behind the iterator
\* shifts the position of the entries still to come.
IterAfterDelete(m, k, idx) ==
    IF MapHas(m, k) /\ MapIndex(m, k) <= idx THEN idx - 1 ELSE idx

\* ---------------------------------------------------------------- durable store
DbChatOf(db, j) == {r \in db : r.jid = j}
\* updateOne(filter {type:'chat', whatsappJid}, $set, {upsert: true})
DbUpsertChat(db, j, t) ==
    IF DbChatOf(db, j) # {}
    THEN (db \ {CHOOSE r \in DbChatOf(db, j) : TRUE}) \cup {[jid |-> j, topic |-> t]}
    ELSE db \cup {[jid |-> j, topic |-> t]}
\* deleteOne(filter {type:'chat', whatsappJid})
DbDeleteOneChat(db, j) ==
    IF DbChatOf(db, j) # {}
    THEN db \ {CHOOSE r \in DbChatOf(db, j) : TRUE}
    ELSE db

\* loadMappingsFromDb lines 153-161: every 'chat' document that find({}) returns
\* is set in the Map m, in the order the cursor gives them.
RECURSIVE LoadMappingsFromDb(_, _)
LoadMappingsFromDb(m, db) ==
    IF db = {}
    THEN m
    ELSE LET r == CHOOSE x \in db : TRUE
         IN  LoadMappingsFromDb(MapSet(m, r.jid, r.topic), db \ {r})
\* The content of a Map: its entries, whatever their order.
MapEntries(m) == {m[i] : i \in 1..Len(m)}

\* ---------------------------------------------------------------- Telegram
\* What telegramBot.sendMessage(chatId, _, {message_thread_id: t}) can answer.
SendOutcomes(t) ==
    IF t \in topicsLive THEN {"ok", "transient"} ELSE {"notfound", "transient"}
\* What telegramBot.deleteMessage can answer for the probe message.
DeleteOutcomes == {"ok", "transient"}

\* verifyTopicExists: true iff both the send and the delete of the probe
\* message succeed; any error is caught and gives false.
VerifyTopicExists(sendRes, delRes) == sendRes = "ok" /\ delRes = "ok"

IdleProc ==
    [pc |-> "idle", jid |-> PrivateJid, topicId |-> None, stale |-> None,
     newTopic |-> None, ret |-> None, fresh |-> FALSE, sent |-> None, fromMe |-> FALSE]

TopicInit ==
    /\ chatMappings = <<>>
    /\ dbChat = {}
    /\ topicsLive = {}
    /\ created = <<>>
    /\ proc = [p \in Procs |-> IdleProc]
    /\ rIdx = 0
    /\ toRecreate = <<>>

\* Topics createForumTopic has made for jid j.
TopicsFor(j) == {t \in 1..Len(created) : created[t].jid = j}

\* ---------------------------------------------------------------- getOrCreateTopic
\* Lines 1137-1140 and 1153-1190: the has/get check; a mapped chat is probed
\* (verifyTopicExists), an unmapped one goes to createForumTopic.
\* fresh (history) records a first contact: no mapping, and no topic ever made.
GetOrCreateTopicEntry(rec, m, cr) ==
    IF MapHas(m, rec.jid)
    THEN [rec EXCEPT !.pc = "verify", !.topicId = MapGet(m, rec.jid)]
    ELSE [rec EXCEPT !.pc = "createTopic", !.topicId = None,
                     !.fresh = ({t \in 1..Len(cr) : cr[t].jid = rec.jid} = {})]

\* A handler that has ended: of its locals only what the properties below read
\* is kept (the stale topic it purged, the topic it created, where the message
\* went).
Finished(rec, sentTo) ==
    [IdleProc EXCEPT !.pc = "done", !.stale = rec.stale, !.newTopic = rec.newTopic,
                     !.sent = sentTo, !.fromMe = rec.fromMe]

\* getOrCreateTopic returns t to its caller: syncMessage (line 824) goes on to
\* relay the text (sendSimpleMessage returns null at once for a null topic);
\* recreateMissingTopics (line 787) goes on to its 500 ms pause.
Return(p, rec, t) ==
    IF p = Recreator
    THEN [rec EXCEPT !.ret = t, !.pc = "rSleep"]
    ELSE IF t = None THEN Finished(rec, None) ELSE [rec EXCEPT !.ret = t, !.pc = "relay"]

\* A purge that leaves the cache entry in place.
PurgeCacheKeep(m, j) == m
\* Line 1145: this.chatMappings.delete(chatJid)
PurgeCache(m, j) == MapDelete(m, j)

\* Lines 1141-1150: the branch on the probe's answer.  A positive answer
\* returns the id read at line 1138; a negative one deletes the cache entry and
\* awaits collection.deleteOne.
ProbeAnswered(p, exists) ==
    IF exists
    THEN /\ proc' = [proc EXCEPT ![p] = Return(p, proc[p], proc[p].topicId)]
         /\ UNCHANGED <<chatMappings, rIdx>>
    ELSE /\ chatMappings' = PurgeCache(chatMappings, proc[p].jid)
         /\ rIdx' = IterAfterDelete(chatMappings, proc[p].jid, rIdx)
         /\ proc' = [proc EXCEPT ![p].pc = "purge", ![p].stale = proc[p].topicId]

\* An own message handled as an incoming one.
SyncOutgoingAsIncoming(rec, m, j) ==
    GetOrCreateTopicEntry([rec EXCEPT !.jid = j, !.fromMe = TRUE], m, created)
\* syncMessage lines 815-821: an own message (key.fromMe) goes to
\* syncOutgoingMessage when the chat has a topic in the cache, and nowhere
\* otherwise.
SyncOutgoingEntry(rec, m, j) ==
    IF MapGet(m, j) # None
    THEN [rec EXCEPT !.jid = j, !.fromMe = TRUE, !.pc = "relay", !.ret = MapGet(m, j)]
    ELSE Finished([rec EXCEPT !.fromMe = TRUE], None)

\* syncMessage lines 803-824: an incoming WhatsApp event for chat j reaches
\* getOrCreateTopic (createUserMapping has been awaited).  An own message
\* (fromMe) is relayed only to an existing topic and creates none.
SyncMessage(p, j, fromMe) ==
    /\ p \in Handlers
    /\ proc[p].pc = "idle"
    \* handlers are interchangeable: they are taken in the order 1, 2, ...
    /\ \A q \in Handlers : q < p => proc[q].pc # "idle"
    /\ proc' = [proc EXCEPT ![p] =
                  IF fromMe
                  THEN SyncOutgoingEntry(@, chatMappings, j)
                  ELSE GetOrCreateTopicEntry([@ EXCEPT !.jid = j], chatMappings, created)]
    /\ UNCHANGED <<chatMappings, dbChat, topicsLive, created, rIdx, toRecreate>>
    /\ UNCHANGED <<queueVars, gateVars, revokeVars, startVars, timerVars, syncVars, userVars, replyVars, bootVars, pollVars, receiptVars, ephemeralVars, shutdownVars, mentionVars>>

\* verifyTopicExists lines 744-758 as called at line 1140: the probe message's
\* send and delete have been answered.
VerifyDone(p) ==
    /\ proc[p].pc = "verify"
    /\ \E s \in SendOutcomes(proc[p].topicId), d \in DeleteOutcomes :
          ProbeAnswered(p, VerifyTopicExists(s, d))
    /\ UNCHANGED <<dbChat, topicsLive, created, toRecreate>>
    /\ UNCHANGED <<queueVars, gateVars, revokeVars, startVars, timerVars, syncVars, userVars, replyVars, bootVars, pollVars, receiptVars, ephemeralVars, shutdownVars, mentionVars>>

\* Lines 1146-1149: collection.deleteOne has been answered.  A rejection is not
\* caught in getOrCreateTopic: it ends syncMessage, and in
\* recreateMissingTopics it is caught at line 797, which ends the loop.
PurgeDone(p) ==
    /\ proc[p].pc = "purge"
    /\ \E ok \in BOOLEAN :
          IF ok
          THEN /\ dbChat' = DbDeleteOneChat(dbChat, proc[p].jid)
               /\ proc' = [proc EXCEPT ![p].pc = "createTopic"]
               /\ UNCHANGED toRecreate
          ELSE /\ proc' = [proc EXCEPT ![p] = Finished(proc[p], None)]
               /\ toRecreate' = IF p = Recreator THEN <<>> ELSE toRecreate
               /\ UNCHANGED dbChat
    /\ UNCHANGED <<chatMappings, topicsLive, created, rIdx>>
    /\ UNCHANGED <<queueVars, gateVars, revokeVars, startVars, timerVars, syncVars, userVars, replyVars, bootVars, pollVars, receiptVars, ephemeralVars, shutdownVars, mentionVars>>

\* Lines 1190-1194 and 1202-1205: createForumTopic answered.  On success the
\* new topic exists and saveChatMapping's updateOne is awaited; on failure the
\* catch returns null.
CreateTopicDone(p) ==
    /\ proc[p].pc = "createTopic"
    /\ \/ /\ Len(created) < MaxTopics
          /\ created' = Append(created, [jid |-> proc[p].jid,
                                         fresh |-> proc[p].fresh,
                                         replaces |-> proc[p].stale])
          /\ topicsLive' = topicsLive \cup {Len(created) + 1}
          /\ proc' = [proc EXCEPT ![p].pc = "save", ![p].newTopic = Len(created) + 1]
       \/ /\ proc' = [proc EXCEPT ![p] = Return(p, proc[p], None)]
          /\ UNCHANGED <<created, topicsLive>>
    /\ UNCHANGED <<chatMappings, dbChat, rIdx, toRecreate>>
    /\ UNCHANGED <<queueVars, gateVars, revokeVars, startVars, timerVars, syncVars, userVars, replyVars, bootVars, pollVars, receiptVars, ephemeralVars, shutdownVars, mentionVars>>

\* saveChatMapping lines 233-256: the durable upsert first, then the cache; a
\* failed upsert is caught and leaves the cache as it was.
SaveChatMapping(ok, j, t) ==
    IF ok
    THEN /\ dbChat' = DbUpsertChat(dbChat, j, t)
         /\ chatMappings' = MapSet(chatMappings, j, t)
    ELSE UNCHANGED <<dbChat, chatMappings>>

\* Lines 1194-1201: saveChatMapping has resolved; after sendWelcomeMessage
\* (which catches its errors) the new topic id is returned.
SaveDone(p) ==
    /\ proc[p].pc = "save"
    /\ \E ok \in BOOLEAN : SaveChatMapping(ok, proc[p].jid, proc[p].newTopic)
    /\ proc' = [proc EXCEPT ![p] = Return(p, proc[p], proc[p].newTopic)]
    /\ UNCHANGED <<topicsLive, created, rIdx, toRecreate>>
    /\ UNCHANGED <<queueVars, gateVars, revokeVars, startVars, timerVars, syncVars, userVars, replyVars, bootVars, pollVars, receiptVars, ephemeralVars, shutdownVars, mentionVars>>

\* syncMessage lines 855-863 (syncOutgoingMessage 1064-1066 for an own message)
\* with sendSimpleMessage 2122-2137: the text is sent to the topic.
RelayDone(p) ==
    /\ proc[p].pc = "relay"
    /\ \E s \in SendOutcomes(proc[p].ret) :
          proc' = [proc EXCEPT ![p] = Finished(proc[p], IF s = "ok" THEN proc[p].ret ELSE None)]
    /\ UNCHANGED <<chatMappings, dbChat, topicsLive, created, rIdx, toRecreate>>
    /\ UNCHANGED <<queueVars, gateVars, revokeVars, startVars, timerVars, syncVars, userVars, replyVars, bootVars, pollVars, receiptVars, ephemeralVars, shutdownVars, mentionVars>>

\* ---------------------------------------------------------------- recreateMissingTopics
\* Lines 774-787: the next element of toRecreate; its cache entry is deleted
\* and collection.deleteOne awaited.  With none left the function ends.
BeginRecreate(list) ==
    IF list = <<>>
    THEN /\ proc' = [proc EXCEPT ![Recreator] = [IdleProc EXCEPT !.pc = "done"]]
         /\ toRecreate' = <<>>
         /\ UNCHANGED chatMappings
    ELSE /\ chatMappings' = MapDelete(chatMappings, Head(list).jid)
         /\ proc' = [proc EXCEPT ![Recreator].pc = "rPurge",
                                 ![Recreator].jid = Head(list).jid,
                                 ![Recreator].topicId = None,
                                 ![Recreator].stale = Head(list).topic]
         /\ toRecreate' = Tail(list)

\* Lines 765-766: the Map iterator's next entry is probed; after the last one
\* the second loop starts.
RIterate ==
    IF rIdx < Len(chatMappings)
    THEN /\ rIdx' = rIdx + 1
         /\ proc' = [proc EXCEPT ![Recreator].pc = "rVerify",
                                 ![Recreator].jid = chatMappings[rIdx + 1].jid,
                                 ![Recreator].topicId = chatMappings[rIdx + 1].topic]
         /\ UNCHANGED <<chatMappings, toRecreate>>
    ELSE /\ rIdx' = 0
         /\ BeginRecreate(toRecreate)

\* syncWhatsAppConnection lines 2166-2177: logToTelegram and syncContacts have
\* been awaited and recreateMissingTopics starts its first loop.
SyncWhatsAppConnection ==
    /\ proc[Recreator].pc = "idle"
    /\ RIterate
    /\ UNCHANGED <<dbChat, topicsLive, created>>
    /\ UNCHANGED <<queueVars, gateVars, revokeVars, startVars, timerVars, syncVars, userVars, replyVars, bootVars, pollVars, receiptVars, ephemeralVars, shutdownVars, mentionVars>>

\* Line 771: the 100 ms pause is over; the first loop goes on.
RIter ==
    /\ proc[Recreator].pc = "rIter"
    /\ RIterate
    /\ UNCHANGED <<dbChat, topicsLive, created>>
    /\ UNCHANGED <<queueVars, gateVars, revokeVars, startVars, timerVars, syncVars, userVars, replyVars, bootVars, pollVars, receiptVars, ephemeralVars, shutdownVars, mentionVars>>

\* Lines 766-771: the probe's answer; a missing topic's jid is pushed.  (The
\* topic id kept beside it is history: the mapping the probe was about.)
RVerifyDone ==
    /\ proc[Recreator].pc = "rVerify"
    /\ \E s \in SendOutcomes(proc[Recreator].topicId), d \in DeleteOutcomes :
          toRecreate' = IF VerifyTopicExists(s, d) THEN toRecreate
                        ELSE Append(toRecreate, [jid |-> proc[Recreator].jid,
                                                 topic |-> proc[Recreator].topicId])
    /\ proc' = [proc EXCEPT ![Recreator].pc = "rIter"]
    /\ UNCHANGED <<chatMappings, dbChat, topicsLive, created, rIdx>>
    /\ UNCHANGED <<queueVars, gateVars, revokeVars, startVars, timerVars, syncVars, userVars, replyVars, bootVars, pollVars, receiptVars, ephemeralVars, shutdownVars, mentionVars>>

\* Lines 776-787: deleteOne answered; getOrCreateTopic(jid, dummyMsg) is called.
\* A rejection is caught at line 797 and ends the function.
RPurgeDone ==
    /\ proc[Recreator].pc = "rPurge"
    /\ \E ok \in BOOLEAN :
          IF ok
          THEN /\ dbChat' = DbDeleteOneChat(dbChat, proc[Recreator].jid)
               /\ proc' = [proc EXCEPT ![Recreator] =
                             GetOrCreateTopicEntry(proc[Recreator], chatMappings, created)]
               /\ UNCHANGED toRecreate
          ELSE /\ proc' = [proc EXCEPT ![Recreator] = [IdleProc EXCEPT !.pc = "done"]]
               /\ toRecreate' = <<>>
               /\ UNCHANGED dbChat
    /\ UNCHANGED <<chatMappings, topicsLive, created, rIdx>>
    /\ UNCHANGED <<queueVars, gateVars, revokeVars, startVars, timerVars, syncVars, userVars, replyVars, bootVars, pollVars, receiptVars, ephemeralVars, shutdownVars, mentionVars>>

\* Lines 789-790: the 500 ms pause is over; the loop takes its next element.
RSleepDone ==
    /\ proc[Recreator].pc = "rSleep"
    /\ BeginRecreate(toRecreate)
    /\ UNCHANGED <<dbChat, topicsLive, created, rIdx>>
    /\ UNCHANGED <<queueVars, gateVars, revokeVars, startVars, timerVars, syncVars, userVars, replyVars, bootVars, pollVars, receiptVars, ephemeralVars, shutdownVars, mentionVars>>

\* ---------------------------------------------------------------- environment
\* A forum topic is deleted in Telegram, outside the bridge.
DeleteTopic(t) ==
    /\ t \in topicsLive
    /\ Cardinality((1..Len(created)) \ topicsLive) < MaxDeletes
    /\ topicsLive' = topicsLive \ {t}
    /\ UNCHANGED <<chatMappings, dbChat, created, proc, rIdx, toRecreate>>
    /\ UNCHANGED <<queueVars, gateVars, revokeVars, startVars, timerVars, syncVars, userVars, replyVars, bootVars, pollVars, receiptVars, ephemeralVars, shutdownVars, mentionVars>>

TopicNext ==
    \/ \E p \in Handlers, j \in JIDs, fromMe \in BOOLEAN : SyncMessage(p, j, fromMe)
    \/ \E p \in Procs : VerifyDone(p)
    \/ \E p \in Procs : PurgeDone(p)
    \/ \E p \in Procs : CreateTopicDone(p)
    \/ \E p \in Procs : SaveDone(p)
    \/ \E p \in Handlers : RelayDone(p)
    \/ SyncWhatsAppConnection
    \/ RIter
    \/ RVerifyDone
    \/ RPurgeDone
    \/ RSleepDone
    \/ \E t \in 1..MaxTopics : DeleteTopic(t)

\* A step in which an awaited store call rejected: updateOne in saveChatMapping
\* (the new topic is not in the cache afterwards), or deleteOne in a purge (the
\* caller ends instead of going on to createForumTopic).
IoFailureStep ==
    \E p \in Procs :
        \/ /\ proc[p].pc = "save"
           /\ proc'[p].pc # "save"
           /\ MapGet(chatMappings', proc[p].jid) # proc[p].newTopic
        \/ /\ proc[p].pc \in {"purge", "rPurge"}
           /\ proc'[p].pc = "done"

\* The topic lifecycle when every call to the durable store succeeds.
ReliableTopicNext ==
    \/ \E p \in Handlers, j \in JIDs, fromMe \in BOOLEAN : SyncMessage(p, j, fromMe)
    \/ \E p \in Procs : VerifyDone(p)
    \/ \E p \in Procs : PurgeDone(p) /\ ~IoFailureStep
    \/ \E p \in Procs : CreateTopicDone(p)
    \/ \E p \in Procs : SaveDone(p) /\ ~IoFailureStep
    \/ \E p \in Handlers : RelayDone(p)
    \/ SyncWhatsAppConnection
    \/ RIter
    \/ RVerifyDone
    \/ RPurgeDone /\ ~IoFailureStep
    \/ RSleepDone
    \/ \E t \in 1..MaxTopics : DeleteTopic(t)

\* ======================================================================
\* Part II: src/telegram/bridge.js
\* ======================================================================
Tasks == 1..MaxTasks
Calls == (MaxTasks + 1)..(MaxTasks + MaxCalls)
BProcs == Tasks \cup Calls
CallKeys == 1..MaxCalls
BTopics == 1..MaxTopics

\* The Telegram users that can send a message (msg.from.id).
Users == 1..MaxUsers
\* config.get('telegram.ownerId')
Owner == 1

NewBProc ==
    [pc |-> "new", kind |-> "none", jid |-> PrivateJid, fromMe |-> FALSE,
     thread |-> None, from |-> None, ret |-> None]

QueueInit ==
    /\ messageQueue = <<>>
    /\ isProcessingQueue = FALSE
    /\ bproc = [p \in BProcs |-> NewBProc]
    /\ started = <<>>
    /\ bChatMappings = [j \in JIDs \cup {CallJid} |-> None]
    /\ topicMappings = [t \in BTopics |-> NoJid]
    /\ bCreated = <<>>
    /\ activeCallNotifications = {}

\* Tasks whose promise has not settled yet.
Running ==
    {t \in Tasks : bproc[t].pc \notin {"new", "queued", "fulfilled", "rejected"}}
\* Handlers that are inside getOrCreateTopic (bridge.js lines 331-397).
InGetOrCreateTopic ==
    {p \in BProcs : bproc[p].pc \in {"groupMeta", "createTopic", "welcome"}}

\* this.messageQueue.push(task)
QueuePush(q, t) == Append(q, t)
\* A consumer that takes the newest task (pop) instead of the oldest.
QueueBack(q) == q[Len(q)]
\* const task = this.messageQueue.shift(): the task taken, and what is left
QueueFront(q) == Head(q)
\* A shift that drops the task behind the one it takes.
QueueRestSkip(q) == IF Len(q) >= 2 THEN Tail(Tail(q)) ELSE Tail(q)
QueueRest(q) == Tail(q)

\* A guard that does not look at the flag.
TickGuardNoFlag == messageQueue # <<>>
\* Line 61: the interval callback goes on only when no task is in progress and
\* the queue is not empty.
TickGuard == ~isProcessingQueue /\ messageQueue # <<>>

\* A consumer without the try/catch: a rejection skips the reset of the flag.
AfterTaskUncaught(outcome) == outcome = "rejected"
\* Lines 66-72: try { await task() } catch { log }; isProcessingQueue = false.
\* The flag's value once the task's promise has settled with `outcome`.
AfterTask(outcome) == FALSE

\* The task of the next push: tasks are numbered in the order they are pushed.
NextTask == CHOOSE t \in Tasks : bproc[t].pc = "new" /\ \A u \in Tasks : u < t => bproc[u].pc # "new"

\* syncMessage lines 228-235: a WhatsApp message is queued, not processed.
SyncMessageB(j, fromMe) ==
    /\ \E t \in Tasks : bproc[t].pc = "new"
    /\ bproc' = [bproc EXCEPT ![NextTask] =
                   [NewBProc EXCEPT !.pc = "queued", !.kind = "wa", !.jid = j,
                                    !.fromMe = fromMe]]
    /\ messageQueue' = QueuePush(messageQueue, NextTask)
    /\ UNCHANGED <<isProcessingQueue, started, bChatMappings, topicMappings, bCreated,
                   activeCallNotifications>>
    /\ UNCHANGED <<topicVars, gateVars, revokeVars, startVars, timerVars, syncVars, userVars, replyVars, bootVars, pollVars, receiptVars, ephemeralVars, shutdownVars, mentionVars>>

\* setupTelegramHandlers lines 177-182: a topic message from Telegram is queued,
\* whoever sent it (the handler reads msg.chat and msg.is_topic_message only).
TelegramMessage(th, userId) ==
    /\ \E t \in Tasks : bproc[t].pc = "new"
    /\ bproc' = [bproc EXCEPT ![NextTask] =
                   [NewBProc EXCEPT !.pc = "queued", !.kind = "tg", !.thread = th,
                                    !.from = userId]]
    /\ messageQueue' = QueuePush(messageQueue, NextTask)
    /\ UNCHANGED <<isProcessingQueue, started, bChatMappings, topicMappings, bCreated,
                   activeCallNotifications>>
    /\ UNCHANGED <<topicVars, gateVars, revokeVars, startVars, timerVars, syncVars, userVars, replyVars, bootVars, pollVars, receiptVars, ephemeralVars, shutdownVars, mentionVars>>

\* A task whose promise has settled, a call handler that has returned: the
\* locals are gone.
Settled(outcome) == [NewBProc EXCEPT !.pc = outcome]

\* The caller's code after `await this.getOrCreateTopic(...)` gave topic t:
\* processWhatsAppMessage lines 253-289 returns on a null topic and otherwise
\* relays; handleCallNotification lines 1164-1172 sends the call message.
BReturned(p, rec, t) ==
    IF p \in Calls
    THEN [rec EXCEPT !.ret = t, !.pc = "callSend"]
    ELSE IF t = None THEN Settled("fulfilled") ELSE [rec EXCEPT !.ret = t, !.pc = "relay"]

\* getOrCreateTopic lines 332-377: a mapped chat's topic is returned at once;
\* otherwise the first await is groupMetadata (group) or createForumTopic.
BEntry(p, rec, j) ==
    IF bChatMappings[j] # None
    THEN BReturned(p, rec, bChatMappings[j])
    ELSE [rec EXCEPT !.pc = IF IsGroup(j) THEN "groupMeta" ELSE "createTopic"]

\* The task's first synchronous stretch, run inside the interval callback:
\* processWhatsAppMessage lines 239-250 (an own message returns at once),
\* handleTelegramMessage lines 719-728 (an unmapped topic returns at once).
StartTask(rec) ==
    IF rec.kind = "wa"
    THEN IF rec.fromMe THEN Settled("fulfilled") ELSE [rec EXCEPT !.pc = "user"]
    ELSE IF topicMappings[rec.thread] = NoJid
         THEN Settled("fulfilled")
         ELSE [rec EXCEPT !.pc = "tgSend", !.jid = topicMappings[rec.thread]]

\* startMessageQueueProcessor lines 60-67: one run of the interval callback that
\* passes the guard: the flag is set, the oldest task shifted and started.
Tick ==
    /\ TickGuard
    /\ LET t == QueueFront(messageQueue)
           rec == StartTask(bproc[t])
       IN /\ bproc' = [bproc EXCEPT ![t] = rec]
          /\ started' = Append(started, t)
          /\ isProcessingQueue' =
                IF rec.pc \in {"fulfilled", "rejected"} THEN AfterTask(rec.pc) ELSE TRUE
    /\ messageQueue' = QueueRest(messageQueue)
    /\ UNCHANGED <<bChatMappings, topicMappings, bCreated, activeCallNotifications>>
    /\ UNCHANGED <<topicVars, gateVars, revokeVars, startVars, timerVars, syncVars, userVars, replyVars, bootVars, pollVars, receiptVars, ephemeralVars, shutdownVars, mentionVars>>

\* A step of task t that leaves it at `rec`: when that settles the task's
\* promise, the interval callback that started it resumes (lines 68-72).
TaskMoves(t, rec) ==
    /\ bproc' = [bproc EXCEPT ![t] = rec]
    /\ isProcessingQueue' =
          IF rec.pc \in {"fulfilled", "rejected"} THEN AfterTask(rec.pc)
          ELSE isProcessingQueue

\* processWhatsAppMessage lines 250-253: createOrUpdateUserMapping has resolved
\* and getOrCreateTopic is called.
BUserDone(t) ==
    /\ t \in Tasks
    /\ bproc[t].pc = "user"
    /\ TaskMoves(t, BEntry(t, bproc[t], bproc[t].jid))
    /\ UNCHANGED <<messageQueue, started, bChatMappings, topicMappings, bCreated,
                   activeCallNotifications>>
    /\ UNCHANGED <<topicVars, gateVars, revokeVars, startVars, timerVars, syncVars, userVars, replyVars, bootVars, pollVars, receiptVars, ephemeralVars, shutdownVars, mentionVars>>

\* Lines 357-363: groupMetadata answered (either way a topic name is set).
BGroupMetaDone(p) ==
    /\ bproc[p].pc = "groupMeta"
    /\ bproc' = [bproc EXCEPT ![p].pc = "createTopic"]
    /\ UNCHANGED <<messageQueue, isProcessingQueue, started, bChatMappings, topicMappings,
                   bCreated, activeCallNotifications>>
    /\ UNCHANGED <<topicVars, gateVars, revokeVars, startVars, timerVars, syncVars, userVars, replyVars, bootVars, pollVars, receiptVars, ephemeralVars, shutdownVars, mentionVars>>

\* Lines 377-396: createForumTopic answered.  On success both maps are set and
\* the welcome message awaited (not for status@broadcast and call@broadcast,
\* which return at once); on failure the catch returns null.
BCreateTopicDone(p) ==
    /\ bproc[p].pc = "createTopic"
    /\ \/ /\ Len(bCreated) < MaxTopics
          /\ LET id == Len(bCreated) + 1
                 j == bproc[p].jid
             IN /\ bCreated' = Append(bCreated, j)
                /\ bChatMappings' = [bChatMappings EXCEPT ![j] = id]
                /\ topicMappings' = [topicMappings EXCEPT ![id] = j]
                /\ IF j = CallJid
                   THEN /\ bproc' = [bproc EXCEPT ![p] = BReturned(p, bproc[p], id)]
                        /\ UNCHANGED isProcessingQueue
                   ELSE /\ bproc' = [bproc EXCEPT ![p].pc = "welcome", ![p].ret = id]
                        /\ UNCHANGED isProcessingQueue
       \/ /\ IF p \in Calls
             THEN /\ bproc' = [bproc EXCEPT ![p] = BReturned(p, bproc[p], None)]
                  /\ UNCHANGED isProcessingQueue
             ELSE TaskMoves(p, BReturned(p, bproc[p], None))
          /\ UNCHANGED <<bCreated, bChatMappings, topicMappings>>
    /\ UNCHANGED <<messageQueue, started, activeCallNotifications>>
    /\ UNCHANGED <<topicVars, gateVars, revokeVars, startVars, timerVars, syncVars, userVars, replyVars, bootVars, pollVars, receiptVars, ephemeralVars, shutdownVars, mentionVars>>

\* Lines 388-392: sendWelcomeMessage (which catches its errors) has resolved.
BWelcomeDone(p) ==
    /\ bproc[p].pc = "welcome"
    /\ bproc' = [bproc EXCEPT ![p] = BReturned(p, bproc[p], bproc[p].ret)]
    /\ UNCHANGED <<messageQueue, isProcessingQueue, started, bChatMappings, topicMappings,
                   bCreated, activeCallNotifications>>
    /\ UNCHANGED <<topicVars, gateVars, revokeVars, startVars, timerVars, syncVars, userVars, replyVars, bootVars, pollVars, receiptVars, ephemeralVars, shutdownVars, mentionVars>>

\* processWhatsAppMessage lines 268-303: the message has been sent to the topic
\* (or the send failed and the error was caught at line 301): the task ends.
BRelayDone(t) ==
    /\ t \in Tasks
    /\ bproc[t].pc = "relay"
    /\ TaskMoves(t, Settled("fulfilled"))
    /\ UNCHANGED <<messageQueue, started, bChatMappings, topicMappings, bCreated,
                   activeCallNotifications>>
    /\ UNCHANGED <<topicVars, gateVars, revokeVars, startVars, timerVars, syncVars, userVars, replyVars, bootVars, pollVars, receiptVars, ephemeralVars, shutdownVars, mentionVars>>

\* handleTelegramMessage lines 728-763: the message has been sent to WhatsApp,
\* or one of the awaited calls threw and the catch at line 787 is entered.
TgSendDone(t) ==
    /\ t \in Tasks
    /\ bproc[t].pc = "tgSend"
    /\ \E ok \in BOOLEAN :
          bproc' = [bproc EXCEPT ![t].pc = IF ok THEN "tgReact" ELSE "tgCatch"]
    /\ UNCHANGED <<messageQueue, isProcessingQueue, started, bChatMappings, topicMappings,
                   bCreated, activeCallNotifications>>
    /\ UNCHANGED <<topicVars, gateVars, revokeVars, startVars, timerVars, syncVars, userVars, replyVars, bootVars, pollVars, receiptVars, ephemeralVars, shutdownVars, mentionVars>>

\* Lines 767-785: the success or failure reaction has been set; the task ends.
TgReactDone(t) ==
    /\ t \in Tasks
    /\ bproc[t].pc = "tgReact"
    /\ TaskMoves(t, Settled("fulfilled"))
    /\ UNCHANGED <<messageQueue, started, bChatMappings, topicMappings, bCreated,
                   activeCallNotifications>>
    /\ UNCHANGED <<topicVars, gateVars, revokeVars, startVars, timerVars, syncVars, userVars, replyVars, bootVars, pollVars, receiptVars, ephemeralVars, shutdownVars, mentionVars>>

\* Lines 787-790: the catch block awaits setReaction outside any try: when that
\* call throws (setReaction's own handler, line 224, dereferences the error),
\* the task's promise rejects.
TgCatchDone(t) ==
    /\ t \in Tasks
    /\ bproc[t].pc = "tgCatch"
    /\ \E outcome \in {"fulfilled", "rejected"} :
          TaskMoves(t, Settled(outcome))
    /\ UNCHANGED <<messageQueue, started, bChatMappings, topicMappings, bCreated,
                   activeCallNotifications>>
    /\ UNCHANGED <<topicVars, gateVars, revokeVars, startVars, timerVars, syncVars, userVars, replyVars, bootVars, pollVars, receiptVars, ephemeralVars, shutdownVars, mentionVars>>

\* handleCallNotification lines 1147-1166, called from the 'call' event (line
\* 1185), not through the queue: a call already notified is dropped, any other
\* is noted and getOrCreateTopic('call@broadcast') is called.
HandleCallNotification(c, key) ==
    /\ c \in Calls
    /\ bproc[c].pc = "new"
    /\ \A d \in Calls : d < c => bproc[d].pc # "new"
    /\ IF key \in activeCallNotifications
       THEN /\ bproc' = [bproc EXCEPT ![c] = Settled("done")]
            /\ UNCHANGED activeCallNotifications
       ELSE /\ activeCallNotifications' = activeCallNotifications \cup {key}
            /\ bproc' = [bproc EXCEPT ![c] =
                           BEntry(c, [NewBProc EXCEPT !.kind = "call", !.jid = CallJid],
                                  CallJid)]
    /\ UNCHANGED <<messageQueue, isProcessingQueue, started, bChatMappings, topicMappings,
                   bCreated>>
    /\ UNCHANGED <<topicVars, gateVars, revokeVars, startVars, timerVars, syncVars, userVars, replyVars, bootVars, pollVars, receiptVars, ephemeralVars, shutdownVars, mentionVars>>

\* Lines 1156-1158: the 30 s timer of a call key fires.
CallTimerFired(key) ==
    /\ key \in activeCallNotifications
    /\ activeCallNotifications' = activeCallNotifications \ {key}
    /\ UNCHANGED <<messageQueue, isProcessingQueue, bproc, started, bChatMappings,
                   topicMappings, bCreated>>
    /\ UNCHANGED <<topicVars, gateVars, revokeVars, startVars, timerVars, syncVars, userVars, replyVars, bootVars, pollVars, receiptVars, ephemeralVars, shutdownVars, mentionVars>>

\* Lines 1168-1177: the call message has been sent (or the error caught).
CallSendDone(c) ==
    /\ c \in Calls
    /\ bproc[c].pc = "callSend"
    /\ bproc' = [bproc EXCEPT ![c] = Settled("done")]
    /\ UNCHANGED <<messageQueue, isProcessingQueue, started, bChatMappings, topicMappings,
                   bCreated, activeCallNotifications>>
    /\ UNCHANGED <<topicVars, gateVars, revokeVars, startVars, timerVars, syncVars, userVars, replyVars, bootVars, pollVars, receiptVars, ephemeralVars, shutdownVars, mentionVars>>

\* Every step a started task can take.
TaskProgress(t) ==
    \/ BUserDone(t)
    \/ BGroupMetaDone(t)
    \/ BCreateTopicDone(t)
    \/ BWelcomeDone(t)
    \/ BRelayDone(t)
    \/ TgSendDone(t)
    \/ TgReactDone(t)
    \/ TgCatchDone(t)

\* The queue, its producers and its consumer.
QueueNext ==
    \/ \E j \in JIDs, fromMe \in BOOLEAN : SyncMessageB(j, fromMe)
    \/ \E th \in BTopics, userId \in Users : TelegramMessage(th, userId)
    \/ Tick
    \/ \E t \in Tasks : TaskProgress(t)

\* The queue together with the 'call' event handler, which runs beside it.
BridgeNext ==
    \/ \E j \in JIDs, fromMe \in BOOLEAN : SyncMessageB(j, fromMe)
    \/ \E th \in BTopics, userId \in Users : TelegramMessage(th, userId)
    \/ Tick
    \/ \E t \in Tasks : BUserDone(t)
    \/ \E p \in BProcs : BGroupMetaDone(p)
    \/ \E p \in BProcs : BCreateTopicDone(p)
    \/ \E p \in BProcs : BWelcomeDone(p)
    \/ \E t \in Tasks : BRelayDone(t)
    \/ \E t \in Tasks : TgSendDone(t)
    \/ \E t \in Tasks : TgReactDone(t)
    \/ \E t \in Tasks : TgCatchDone(t)
    \/ \E c \in Calls, key \in CallKeys : HandleCallNotification(c, key)
    \/ \E key \in CallKeys : CallTimerFired(key)
    \/ \E c \in Calls : CallSendDone(c)

\* ======================================================================
\* Part III: src/TelegramBridge.js, the access gate of the Telegram side
\* ======================================================================
\* this.rateLimiter.has(key) is false
NoEntry == [count |-> 0, resetTime |-> 0]
\* What a message can be: a topic message (or any text that changes no set),
\* and the two private commands that change authorizedUsers.
Kinds == {"topic", "/authorize", "/unauthorize"}
\* args[0] of a command; a topic message has none.
CommandArgs(userId, kind) == IF kind = "topic" THEN {userId} ELSE Users

NoMessage == [user |-> Owner, result |-> "none", notices |-> 0, relayed |-> FALSE]

GateInit ==
    \* initialize lines 59-62: the owner is authorized (no sudoUsers configured)
    /\ authorizedUsers = {Owner}
    /\ blockedUsers = {}
    /\ rateLimiter = [u \in Users |-> NoEntry]
    /\ now = 0
    /\ calls = [u \in Users |-> [start |-> 0, n |-> 0]]
    /\ last = NoMessage

\* A gate that lets everybody in.
IsAuthorizedAnyone(userId) == TRUE
\* isAuthorized, lines 124-126
IsAuthorized(userId) == userId \in authorizedUsers /\ userId \notin blockedUsers
\* isAuthorized of the second version of the class, lines 2456-2458
IsAuthorizedV2(userId) == userId \in authorizedUsers

\* A limiter that never rejects.
CheckRateLimitAlways(rl, userId, t) == TRUE
\* checkRateLimit lines 129-151, its return value: false only for an entry whose
\* window has not expired (now > resetTime is false) and whose count has
\* reached limit.messages.
CheckRateLimit(rl, userId, t) ==
    IF rl[userId] = NoEntry THEN TRUE
    ELSE IF t > rl[userId].resetTime THEN TRUE
    ELSE IF rl[userId].count >= MaxCount THEN FALSE
    ELSE TRUE

\* checkRateLimit lines 129-151, its effect on this.rateLimiter.
RateLimiterAfter(rl, userId, t) ==
    IF rl[userId] = NoEntry \/ t > rl[userId].resetTime
    THEN [rl EXCEPT ![userId] = [count |-> 1, resetTime |-> t + WindowMs]]
    ELSE IF rl[userId].count >= MaxCount THEN rl
    ELSE [rl EXCEPT ![userId].count = @ + 1]

\* A handler that consults the limiter before the authorization.
GateLimiterEager(userId) == RateLimiterAfter(rateLimiter, userId, now)
\* Message handler lines 453-459: checkRateLimit is reached only by an
\* authorized sender.
GateLimiter(userId) ==
    IF IsAuthorized(userId) THEN RateLimiterAfter(rateLimiter, userId, now)
    ELSE rateLimiter

\* History: the window a call at time t falls in.  A window starts with the
\* first call and with the first call made after the previous window's end.
CallsAfter(c, t) ==
    IF c.n = 0 \/ t > c.start + WindowMs
    THEN [start |-> t, n |-> 1]
    ELSE [c EXCEPT !.n = @ + 1]

\* TelegramCommands.handleCommand lines 4584-4668 with handleAuthorize
\* (5137-5166) and handleUnauthorize (5168-5197): only the owner's chat changes
\* the set.  In a private chat msg.chat.id is the sender's id.
HandleCommand(auth, userId, kind, arg) ==
    IF kind = "/authorize" /\ userId = Owner THEN auth \cup {arg}
    ELSE IF kind = "/unauthorize" /\ userId = Owner THEN auth \ {arg}
    ELSE auth

\* The 'message' handler, lines 449-471: authorization, then the rate limit
\* (with its notice), then handleCommand or handleTelegramMessage.
OnMessage(userId, kind, arg) ==
    /\ IF ~IsAuthorized(userId)
       THEN /\ last' = [user |-> userId, result |-> "dropped", notices |-> 0,
                        relayed |-> FALSE]
            /\ UNCHANGED <<calls, authorizedUsers>>
       ELSE /\ CallsAfter(calls[userId], now).n <= MaxCount + MaxExcess
            /\ calls' = [calls EXCEPT ![userId] = CallsAfter(@, now)]
            /\ IF CheckRateLimit(rateLimiter, userId, now)
               THEN /\ last' = [user |-> userId, result |-> "passed", notices |-> 0,
                                relayed |-> TRUE]
                    /\ authorizedUsers' = HandleCommand(authorizedUsers, userId, kind, arg)
               ELSE /\ last' = [user |-> userId, result |-> "limited", notices |-> 1,
                                relayed |-> FALSE]
                    /\ UNCHANGED authorizedUsers
    /\ rateLimiter' = GateLimiter(userId)
    /\ UNCHANGED <<blockedUsers, now>>
    /\ UNCHANGED <<topicVars, queueVars, revokeVars, startVars, timerVars, syncVars, userVars, replyVars, bootVars, pollVars, receiptVars, ephemeralVars, shutdownVars, mentionVars>>

\* Time passes.
AdvanceTime ==
    /\ now < MaxTime
    /\ now' = now + 1
    /\ UNCHANGED <<authorizedUsers, blockedUsers, rateLimiter, calls, last>>
    /\ UNCHANGED <<topicVars, queueVars, revokeVars, startVars, timerVars, syncVars, userVars, replyVars, bootVars, pollVars, receiptVars, ephemeralVars, shutdownVars, mentionVars>>

GateNext ==
    \/ \E u \in Users, kind \in Kinds :
          \E arg \in CommandArgs(u, kind) : OnMessage(u, kind, arg)
    \/ AdvanceTime

\* ======================================================================
\* Part IV: src/TelegramBridge.js, the message index and revocation
\* ======================================================================
\* Telegram topic messages of an authorized sender that handleTelegramMessage
\* relays; a message's number is its Telegram message id.
Relays == 1..MaxRelays
Callbacks == 1..MaxCallbacks
\* sendResult.key of the WhatsApp message that relays Telegram message m.
WaKey(m) == 100 + m

NewRProc == [pc |-> "new", saved |-> FALSE]
NewCProc == [pc |-> "new", user |-> Owner, button |-> None]

RevokeInit ==
    /\ messageIdMapping = [m \in Relays |-> None]
    /\ dbMessage = {}
    /\ revokeButtons = {}
    /\ rproc = [m \in Relays |-> NewRProc]
    /\ cproc = [c \in Callbacks |-> NewCProc]
    /\ deletes = [m \in Relays |-> 0]
    /\ replies = {}
    /\ reacted = {}

\* Map.prototype.get on the index: undefined for a key it does not hold.
Resolve(index, id) == IF id \in DOMAIN index THEN index[id] ELSE None

\* this.revokeButtons.get(buttonId)
ButtonKey(buttons, b) ==
    IF \E e \in buttons : e.button = b
    THEN (CHOOSE e \in buttons : e.button = b).key
    ELSE None

\* handleTelegramMessage lines 1609-1692, called at line 469 for a sender that
\* passed the gate: the text is being sent to WhatsApp.
RelayStart(m) ==
    /\ rproc[m].pc = "new"
    /\ \A k \in Relays : k < m => rproc[k].pc # "new"
    /\ rproc' = [rproc EXCEPT ![m].pc = "send"]
    /\ UNCHANGED <<messageIdMapping, dbMessage, revokeButtons, cproc, deletes, replies,
                   reacted>>
    /\ UNCHANGED <<topicVars, queueVars, gateVars, startVars, timerVars, syncVars, userVars, replyVars, bootVars, pollVars, receiptVars, ephemeralVars, shutdownVars, mentionVars>>

\* Lines 1692-1696: whatsappBot.sendMessage answered.  With a key in the answer
\* saveMessageMapping is called (setReaction catches its errors); without one,
\* or on an error, the message is not relayed.
RelaySendDone(m) ==
    /\ rproc[m].pc = "send"
    /\ \E ok \in BOOLEAN :
          rproc' = [rproc EXCEPT ![m].pc = IF ok THEN "save" ELSE "failed"]
    /\ UNCHANGED <<messageIdMapping, dbMessage, revokeButtons, cproc, deletes, replies,
                   reacted>>
    /\ UNCHANGED <<topicVars, queueVars, gateVars, startVars, timerVars, syncVars, userVars, replyVars, bootVars, pollVars, receiptVars, ephemeralVars, shutdownVars, mentionVars>>

\* saveMessageMapping lines 192-212: the durable upsert first, then the cache; a
\* failed upsert is caught and leaves the cache as it was.
SaveMessageMapping(ok, telegramMsgId, whatsappKey) ==
    IF ok
    THEN /\ dbMessage' = dbMessage \cup {[telegramMsgId |-> telegramMsgId,
                                         whatsappKey |-> whatsappKey]}
         /\ messageIdMapping' = [messageIdMapping EXCEPT ![telegramMsgId] = whatsappKey]
    ELSE UNCHANGED <<dbMessage, messageIdMapping>>

\* createRevokeButton lines 419-430: this.revokeButtons.set(buttonId, whatsappKey)
CreateRevokeButton(buttons, b, whatsappKey) ==
    buttons \cup {[button |-> b, key |-> whatsappKey]}

\* Lines 1696-1700: saveMessageMapping has resolved and the revoke button is
\* created (telegram.features.revokeButtons is on).
RelaySaveDone(m) ==
    /\ rproc[m].pc = "save"
    /\ \E ok \in BOOLEAN :
          /\ SaveMessageMapping(ok, m, WaKey(m))
          /\ rproc' = [rproc EXCEPT ![m] = [pc |-> "relayed", saved |-> ok]]
    /\ revokeButtons' = CreateRevokeButton(revokeButtons, m, WaKey(m))
    /\ UNCHANGED <<cproc, deletes, replies, reacted>>
    /\ UNCHANGED <<topicVars, queueVars, gateVars, startVars, timerVars, syncVars, userVars, replyVars, bootVars, pollVars, receiptVars, ephemeralVars, shutdownVars, mentionVars>>

\* A callback_query handler that has returned.
CallbackDone(userId, outcome) == [pc |-> outcome, user |-> userId, button |-> None]

\* The 'callback_query' handler, lines 474-484, and handleCallbackQuery lines
\* 496-512 up to its first await: an unauthorized press is answered with an
\* alert; a press of a button the Map no longer holds is answered "expired";
\* any other issues the WhatsApp delete.
OnCallbackQuery(c, userId, b) ==
    /\ cproc[c].pc = "new"
    /\ \A d \in Callbacks : d < c => cproc[d].pc # "new"
    \* the button pressed has been shown
    /\ rproc[b].pc = "relayed"
    /\ IF ~IsAuthorized(userId)
       THEN /\ replies' = replies \cup {[user |-> userId, path |-> "callback_query"]}
            /\ cproc' = [cproc EXCEPT ![c] = CallbackDone(userId, "unauthorized")]
            /\ UNCHANGED deletes
       ELSE IF ButtonKey(revokeButtons, b) = None
       THEN /\ cproc' = [cproc EXCEPT ![c] = CallbackDone(userId, "expired")]
            /\ UNCHANGED <<deletes, replies>>
       ELSE /\ deletes' = [deletes EXCEPT ![b] = @ + 1]
            /\ cproc' = [cproc EXCEPT ![c] = [pc |-> "revoking", user |-> userId,
                                             button |-> b]]
            /\ UNCHANGED replies
    /\ UNCHANGED <<messageIdMapping, dbMessage, revokeButtons, rproc, reacted>>
    /\ UNCHANGED <<topicVars, queueVars, gateVars, startVars, timerVars, syncVars, userVars, replyVars, bootVars, pollVars, receiptVars, ephemeralVars, shutdownVars, mentionVars>>

\* handleCallbackQuery lines 510-534: the delete, the edit of the Telegram
\* message and the answer have all been awaited, and only then the button is
\* removed; when one of them throws, the catch answers "failed" and the button
\* stays.
RevokeDone(c) ==
    /\ cproc[c].pc = "revoking"
    /\ \E ok \in BOOLEAN :
          IF ok
          THEN /\ revokeButtons' = {e \in revokeButtons : e.button # cproc[c].button}
               /\ cproc' = [cproc EXCEPT ![c] = CallbackDone(cproc[c].user, "revoked")]
          ELSE /\ cproc' = [cproc EXCEPT ![c] = CallbackDone(cproc[c].user, "failed")]
               /\ UNCHANGED revokeButtons
    /\ UNCHANGED <<messageIdMapping, dbMessage, rproc, deletes, replies, reacted>>
    /\ UNCHANGED <<topicVars, queueVars, gateVars, startVars, timerVars, syncVars, userVars, replyVars, bootVars, pollVars, receiptVars, ephemeralVars, shutdownVars, mentionVars>>

\* The 'message_reaction' handler, lines 487-490, with handleMessageReaction
\* lines 538-558: an unauthorized reaction is ignored; an authorized one on an
\* indexed message is sent to WhatsApp.
OnMessageReaction(userId, telegramMsgId) ==
    /\ reacted' = IF IsAuthorized(userId)
                     /\ Resolve(messageIdMapping, telegramMsgId) # None
                  THEN reacted \cup {telegramMsgId}
                  ELSE reacted
    /\ UNCHANGED <<messageIdMapping, dbMessage, revokeButtons, rproc, cproc, deletes,
                   replies>>
    /\ UNCHANGED <<topicVars, queueVars, gateVars, startVars, timerVars, syncVars, userVars, replyVars, bootVars, pollVars, receiptVars, ephemeralVars, shutdownVars, mentionVars>>

RevokeNext ==
    \/ \E m \in Relays : RelayStart(m)
    \/ \E m \in Relays : RelaySendDone(m)
    \/ \E m \in Relays : RelaySaveDone(m)
    \/ \E c \in Callbacks, u \in Users, b \in Relays : OnCallbackQuery(c, u, b)
    \/ \E c \in Callbacks : RevokeDone(c)
    \/ \E u \in Users, m \in Relays : OnMessageReaction(u, m)

\* ======================================================================
\* Part V: src/TelegramBridge.js, start-up (initialize, the guard of syncMessage)
\* ======================================================================
\* A configured string, as the sequence of its pieces.  Missing is the empty
\* string; Unset is a key that is not configured (config.get gives undefined).
Missing == <<>>
Unset == <<"undefined">>
TokenValues == {Unset, Missing, <<"YOUR_BOT_TOKEN">>, <<"<", "YOUR_BOT_TOKEN", ">">>,
                <<"123456:ABC">>}
ChatIdValues == {Unset, Missing, <<"YOUR_CHAT_ID">>, <<"-100", "YOUR_CHAT_ID">>,
                 <<"-1001234">>}
Configs ==
    [botToken : TokenValues, chatId : ChatIdValues, ownerId : {None, Owner},
     enabled : BOOLEAN]
ValidConfig ==
    [botToken |-> <<"123456:ABC">>, chatId |-> <<"-1001234">>, ownerId |-> Owner,
     enabled |-> TRUE]

\* !value of a configured string: undefined and '' are falsy.
Falsy(str) == str = Unset \/ str = Missing
\* String.prototype.includes
Includes(str, piece) == \E i \in 1..Len(str) : str[i] = piece

\* A guard that looks for a missing value only.
UnconfiguredOnly(cfg) == Falsy(cfg.botToken) \/ Falsy(cfg.chatId)
\* initialize line 54 (src/telegram/bridge.js line 36 has the same test):
\* !token || token.includes('YOUR_BOT_TOKEN') || !chatId
\*        || chatId.includes('YOUR_CHAT_ID')
Unconfigured(cfg) ==
    \/ Falsy(cfg.botToken)
    \/ Includes(cfg.botToken, "YOUR_BOT_TOKEN")
    \/ Falsy(cfg.chatId)
    \/ Includes(cfg.chatId, "YOUR_CHAT_ID")

\* The fields as the constructor leaves them (lines 17-47).
StartConstructed ==
    /\ config \in Configs
    /\ telegramBot = FALSE
    /\ collection = FALSE
    /\ handlersSet = FALSE
    /\ ipc = "new"
    /\ syncCalls = 0
    /\ synced = 0

\* The fields after initialize has run to its end with a valid configuration.
StartInit ==
    /\ config = ValidConfig
    /\ telegramBot = TRUE
    /\ collection = TRUE
    /\ handlersSet = TRUE
    /\ ipc = "ready"
    /\ syncCalls = 0
    /\ synced = 0

\* initialize lines 49-65: the configuration test; with a usable configuration
\* the owner is authorized (line 60; no sudoUsers are configured) and
\* initializeDatabase is awaited.
Initialize ==
    /\ ipc = "new"
    /\ IF Unconfigured(config)
       THEN /\ ipc' = "skipped"
            /\ UNCHANGED authorizedUsers
       ELSE /\ ipc' = "db"
            /\ authorizedUsers' =
                  IF config.ownerId # None THEN authorizedUsers \cup {config.ownerId}
                  ELSE authorizedUsers
    /\ UNCHANGED <<config, telegramBot, collection, handlersSet, syncCalls, synced>>
    /\ UNCHANGED <<blockedUsers, rateLimiter, now, calls, last>>
    /\ UNCHANGED <<topicVars, queueVars, revokeVars, timerVars, syncVars, userVars, replyVars, bootVars, pollVars, receiptVars, ephemeralVars, shutdownVars, mentionVars>>

\* initializeDatabase lines 104-121 has resolved (it catches its own errors:
\* after a failure this.collection stays unset); fs.ensureDir is awaited.
InitializeDatabaseDone ==
    /\ ipc = "db"
    /\ \E ok \in BOOLEAN : collection' = ok
    /\ ipc' = "dir"
    /\ UNCHANGED <<config, telegramBot, handlersSet, syncCalls, synced>>
    /\ UNCHANGED <<topicVars, queueVars, gateVars, revokeVars, timerVars, syncVars, userVars, replyVars, bootVars, pollVars, receiptVars, ephemeralVars, shutdownVars, mentionVars>>

\* Lines 66-88: ensureDir has resolved, the bot is made and registerBotCommands
\* is awaited; a rejection is caught at line 98.
EnsureDirDone ==
    /\ ipc = "dir"
    /\ \E ok \in BOOLEAN :
          IF ok
          THEN /\ telegramBot' = TRUE
               /\ ipc' = "commands"
          ELSE /\ ipc' = "failed"
               /\ UNCHANGED telegramBot
    /\ UNCHANGED <<config, collection, handlersSet, syncCalls, synced>>
    /\ UNCHANGED <<topicVars, queueVars, gateVars, revokeVars, timerVars, syncVars, userVars, replyVars, bootVars, pollVars, receiptVars, ephemeralVars, shutdownVars, mentionVars>>

\* Lines 88-90: registerBotCommands has resolved, the handlers are set up and
\* loadMappingsFromDb is awaited; a rejection is caught at line 98.
RegisterBotCommandsDone ==
    /\ ipc = "commands"
    /\ \E ok \in BOOLEAN :
          IF ok
          THEN /\ handlersSet' = TRUE
               /\ ipc' = "load"
          ELSE /\ ipc' = "failed"
               /\ UNCHANGED handlersSet
    /\ UNCHANGED <<config, telegramBot, collection, syncCalls, synced>>
    /\ UNCHANGED <<topicVars, queueVars, gateVars, revokeVars, timerVars, syncVars, userVars, replyVars, bootVars, pollVars, receiptVars, ephemeralVars, shutdownVars, mentionVars>>

\* Lines 90-97: loadMappingsFromDb (lines 153-161) has resolved: the 'chat'
\* documents of the store are set in chatMappings; without a collection find
\* throws, which is caught, and the cache is left as it is.
LoadMappingsDone ==
    /\ ipc = "load"
    /\ ipc' = "ready"
    /\ chatMappings' = IF collection THEN LoadMappingsFromDb(chatMappings, dbChat)
                       ELSE chatMappings
    /\ UNCHANGED <<dbChat, topicsLive, created, proc, rIdx, toRecreate>>
    /\ UNCHANGED <<config, telegramBot, collection, handlersSet, syncCalls, synced>>
    /\ UNCHANGED <<queueVars, gateVars, revokeVars, timerVars, syncVars, userVars, replyVars, bootVars, pollVars, receiptVars, ephemeralVars, shutdownVars, mentionVars>>

\* The guard of syncMessage, line 804.
SyncMessageGuard(bot, cfg) == bot /\ cfg.enabled

\* syncMessage lines 803-805, called at any moment of the start-up: without a
\* bot, or with the bridge disabled, it returns at once.
SyncMessageCall ==
    /\ syncCalls < MaxSyncs
    /\ syncCalls' = syncCalls + 1
    /\ synced' = IF SyncMessageGuard(telegramBot, config) THEN synced + 1 ELSE synced
    /\ UNCHANGED <<config, telegramBot, collection, handlersSet, ipc>>
    /\ UNCHANGED <<topicVars, queueVars, gateVars, revokeVars, timerVars, syncVars, userVars, replyVars, bootVars, pollVars, receiptVars, ephemeralVars, shutdownVars, mentionVars>>

StartNext ==
    \/ Initialize
    \/ InitializeDatabaseDone
    \/ EnsureDirDone
    \/ RegisterBotCommandsDone
    \/ LoadMappingsDone
    \/ SyncMessageCall

\* ======================================================================
\* Part VI: src/TelegramBridge.js, the debounce timers (typing pause, read
\* receipts, call notifications)
\* ======================================================================
CallEvents == 1..MaxCallEvents
NewCallProc == [pc |-> "new", key |-> None, epoch |-> 0]

TimerInit ==
    /\ timers = {}
    /\ nextTimer = 1
    /\ presenceTimeout = None
    /\ awaitingPause = {}
    /\ readQueue = [j \in JIDs |-> 0]
    /\ reading = {}
    /\ activeCallKeys = {}
    /\ epoch = [k \in CallKeys |-> 0]
    /\ callProc = [c \in CallEvents |-> NewCallProc]
    /\ callNotices = <<>>

\* setTimeout(callback, delay): a pending timer with a fresh handle.
SetTimeout(ts, kind, key) == ts \cup {[id |-> nextTimer, kind |-> kind, key |-> key]}
\* clearTimeout(handle): the timer is cancelled; a handle that has fired or was
\* cleared is ignored.
ClearTimeout(ts, handle) == {t \in ts : t.id # handle}
PendingTimers(kind, key) == {t \in timers : t.kind = kind /\ t.key = key}

\* sendTypingPresence lines 721-742: 'composing' has been sent (sendPresence
\* catches its errors); the timer in this.presenceTimeout, whatever chat it is
\* for, is cleared and a new 3 s timer is stored in the same field.
SendTypingPresence(jid) ==
    /\ nextTimer <= MaxTimers
    /\ timers' = SetTimeout(ClearTimeout(timers, presenceTimeout), "pause", jid)
    /\ presenceTimeout' = nextTimer
    /\ nextTimer' = nextTimer + 1
    /\ awaitingPause' = awaitingPause \cup {jid}
    /\ UNCHANGED <<readQueue, reading, activeCallKeys, epoch, callProc, callNotices>>
    /\ UNCHANGED <<topicVars, queueVars, gateVars, revokeVars, startVars, syncVars, userVars, replyVars, bootVars, pollVars, receiptVars, ephemeralVars, shutdownVars, mentionVars>>

\* Lines 731-737: a pause timer fires and 'paused' is sent for its chat.
PauseTimerFired(t) ==
    /\ t \in timers
    /\ t.kind = "pause"
    /\ timers' = timers \ {t}
    /\ awaitingPause' = awaitingPause \ {t.key}
    /\ UNCHANGED <<nextTimer, presenceTimeout, readQueue, reading, activeCallKeys, epoch,
                   callProc, callNotices>>
    /\ UNCHANGED <<topicVars, queueVars, gateVars, revokeVars, startVars, syncVars, userVars, replyVars, bootVars, pollVars, receiptVars, ephemeralVars, shutdownVars, mentionVars>>

\* queueMessageForReadReceipt lines 1076-1088: the key is pushed and a 2 s
\* timer is set; no earlier timer is cleared.
QueueMessageForReadReceipt(chatJid) ==
    /\ nextTimer <= MaxTimers
    /\ readQueue' = [readQueue EXCEPT ![chatJid] = @ + 1]
    /\ timers' = SetTimeout(timers, "read", chatJid)
    /\ nextTimer' = nextTimer + 1
    /\ UNCHANGED <<presenceTimeout, awaitingPause, reading, activeCallKeys, epoch,
                   callProc, callNotices>>
    /\ UNCHANGED <<topicVars, queueVars, gateVars, revokeVars, startVars, syncVars, userVars, replyVars, bootVars, pollVars, receiptVars, ephemeralVars, shutdownVars, mentionVars>>

\* processReadReceipts lines 1090-1096, run by a read timer: with nothing
\* queued it returns, otherwise readMessages is awaited.
ReadTimerFired(t) ==
    /\ t \in timers
    /\ t.kind = "read"
    /\ timers' = timers \ {t}
    /\ reading' = IF readQueue[t.key] = 0 THEN reading
                  ELSE reading \cup {[id |-> t.id, jid |-> t.key]}
    /\ UNCHANGED <<nextTimer, presenceTimeout, awaitingPause, readQueue, activeCallKeys,
                   epoch, callProc, callNotices>>
    /\ UNCHANGED <<topicVars, queueVars, gateVars, revokeVars, startVars, syncVars, userVars, replyVars, bootVars, pollVars, receiptVars, ephemeralVars, shutdownVars, mentionVars>>

\* Lines 1096-1103: readMessages has resolved and the chat's queue is replaced
\* by an empty one; a rejection is caught and leaves the queue.
ReadMessagesDone(r) ==
    /\ r \in reading
    /\ reading' = reading \ {r}
    /\ \E ok \in BOOLEAN :
          readQueue' = IF ok THEN [readQueue EXCEPT ![r.jid] = 0] ELSE readQueue
    /\ UNCHANGED <<timers, nextTimer, presenceTimeout, awaitingPause, activeCallKeys,
                   epoch, callProc, callNotices>>
    /\ UNCHANGED <<topicVars, queueVars, gateVars, revokeVars, startVars, syncVars, userVars, replyVars, bootVars, pollVars, receiptVars, ephemeralVars, shutdownVars, mentionVars>>

\* A test that never finds the key.
CallKeyNeverActive(keys, callKey) == FALSE
\* handleCallNotification line 1294: this.activeCallNotifications.has(callKey)
CallKeyActive(keys, callKey) == callKey \in keys

\* handleCallNotification lines 1288-1306 of TelegramBridge.js: a call whose
\* key is held is dropped; any other is noted, its 30 s timer is set and
\* getOrCreateTopic('call@broadcast') is awaited.
OnCall(c, callKey) ==
    /\ callProc[c].pc = "new"
    /\ \A d \in CallEvents : d < c => callProc[d].pc # "new"
    /\ IF CallKeyActive(activeCallKeys, callKey)
       THEN /\ callProc' = [callProc EXCEPT ![c] =
                               [pc |-> "dropped", key |-> callKey, epoch |-> epoch[callKey]]]
            /\ UNCHANGED <<activeCallKeys, timers, nextTimer>>
       ELSE /\ nextTimer <= MaxTimers
            /\ activeCallKeys' = activeCallKeys \cup {callKey}
            /\ timers' = SetTimeout(timers, "call", callKey)
            /\ nextTimer' = nextTimer + 1
            /\ callProc' = [callProc EXCEPT ![c] =
                               [pc |-> "topic", key |-> callKey, epoch |-> epoch[callKey]]]
    /\ UNCHANGED <<presenceTimeout, awaitingPause, readQueue, reading, epoch, callNotices>>
    /\ UNCHANGED <<topicVars, queueVars, gateVars, revokeVars, startVars, syncVars, userVars, replyVars, bootVars, pollVars, receiptVars, ephemeralVars, shutdownVars, mentionVars>>

\* Lines 1297-1299: the 30 s timer of a call key fires and the key is deleted.
CallKeyExpired(t) ==
    /\ t \in timers
    /\ t.kind = "call"
    /\ timers' = timers \ {t}
    /\ activeCallKeys' = activeCallKeys \ {t.key}
    /\ epoch' = [epoch EXCEPT ![t.key] = @ + 1]
    /\ UNCHANGED <<nextTimer, presenceTimeout, awaitingPause, readQueue, reading, callProc,
                   callNotices>>
    /\ UNCHANGED <<topicVars, queueVars, gateVars, revokeVars, startVars, syncVars, userVars, replyVars, bootVars, pollVars, receiptVars, ephemeralVars, shutdownVars, mentionVars>>

\* Lines 1305-1320: getOrCreateTopic has returned; without a topic the handler
\* ends, with one the call message is sent.
CallTopicReturned(c) ==
    /\ callProc[c].pc = "topic"
    /\ \E topicId \in {None, 1} :
          callProc' = [callProc EXCEPT ![c].pc = IF topicId = None THEN "done" ELSE "send"]
    /\ UNCHANGED <<timers, nextTimer, presenceTimeout, awaitingPause, readQueue, reading,
                   activeCallKeys, epoch, callNotices>>
    /\ UNCHANGED <<topicVars, queueVars, gateVars, revokeVars, startVars, syncVars, userVars, replyVars, bootVars, pollVars, receiptVars, ephemeralVars, shutdownVars, mentionVars>>

\* Lines 1320-1328: telegramBot.sendMessage has been answered; a rejection is
\* caught.
CallNoticeDone(c) ==
    /\ callProc[c].pc = "send"
    /\ \E ok \in BOOLEAN :
          callNotices' = IF ok
                         THEN Append(callNotices, [key |-> callProc[c].key,
                                                   epoch |-> callProc[c].epoch])
                         ELSE callNotices
    /\ callProc' = [callProc EXCEPT ![c].pc = "done"]
    /\ UNCHANGED <<timers, nextTimer, presenceTimeout, awaitingPause, readQueue, reading,
                   activeCallKeys, epoch>>
    /\ UNCHANGED <<topicVars, queueVars, gateVars, revokeVars, startVars, syncVars, userVars, replyVars, bootVars, pollVars, receiptVars, ephemeralVars, shutdownVars, mentionVars>>

TimerNext ==
    \/ \E j \in JIDs : SendTypingPresence(j)
    \/ \E t \in timers : PauseTimerFired(t)
    \/ \E j \in JIDs : QueueMessageForReadReceipt(j)
    \/ \E t \in timers : ReadTimerFired(t)
    \/ \E r \in reading : ReadMessagesDone(r)
    \/ \E c \in CallEvents, k \in CallKeys : OnCall(c, k)
    \/ \E t \in timers : CallKeyExpired(t)
    \/ \E c \in CallEvents : CallTopicReturned(c)
    \/ \E c \in CallEvents : CallNoticeDone(c)

\* ======================================================================
\* Part VII: the WhatsApp to Telegram content relay (syncMessage and
\* syncOutgoingMessage of src/TelegramBridge.js, processWhatsAppMessage of
\* src/telegram/bridge.js)
\* ======================================================================
\* The payload fields of whatsappMsg.message the relay looks at.
PayloadFields == {"ptvMessage", "imageMessage", "videoMessage", "audioMessage",
                  "documentMessage", "stickerMessage", "locationMessage", "contactMessage"}
\* The text handed over with a message, as its pieces; <<>> is the empty text.
Texts == {<<>>, <<"hello">>, <<"hi", "@all">>, <<"@everyone">>}

\* A WhatsApp message: the populated payload fields, videoMessage.ptv, the
\* text, whether extendedTextMessage.contextInfo.quotedMessage is set (only a
\* message with text has it) and key.remoteJid.
Messages ==
    {m \in [payloads : SUBSET PayloadFields, ptv : BOOLEAN, text : Texts,
            quoted : BOOLEAN, sender : JIDs] :
        /\ Cardinality(m.payloads) <= MaxPayloads
        /\ m.ptv => "videoMessage" \in m.payloads
        /\ m.quoted => m.text # <<>>}
NoWaMessage == [payloads |-> {}, ptv |-> FALSE, text |-> <<>>, quoted |-> FALSE,
                sender |-> PrivateJid]

SyncInit ==
    /\ sync = [pc |-> "idle", by |-> "none", msg |-> NoWaMessage, topicId |-> None,
               sends |-> <<>>]
    /\ adapters = <<>>
    /\ mention = "none"
    /\ groupParticipants = FALSE

\* The if / else-if chain of syncMessage (lines 839-867) and of
\* syncOutgoingMessage (lines 1048-1070): the content variant of a message,
\* "none" when no branch is taken.
ContentVariant(m) ==
    IF "ptvMessage" \in m.payloads \/ ("videoMessage" \in m.payloads /\ m.ptv) THEN "video_note"
    ELSE IF "imageMessage" \in m.payloads THEN "image"
    ELSE IF "videoMessage" \in m.payloads THEN "video"
    ELSE IF "audioMessage" \in m.payloads THEN "audio"
    ELSE IF "documentMessage" \in m.payloads THEN "document"
    ELSE IF "stickerMessage" \in m.payloads THEN "sticker"
    ELSE IF "locationMessage" \in m.payloads THEN "location"
    ELSE IF "contactMessage" \in m.payloads THEN "contact"
    ELSE IF m.text # <<>> THEN "text"
    ELSE "none"

\* The chain of processWhatsAppMessage (src/telegram/bridge.js lines 268-289).
BridgeContentVariant(m) ==
    IF "imageMessage" \in m.payloads THEN "image"
    ELSE IF "videoMessage" \in m.payloads THEN "video"
    ELSE IF "audioMessage" \in m.payloads THEN "audio"
    ELSE IF "documentMessage" \in m.payloads THEN "document"
    ELSE IF "stickerMessage" \in m.payloads THEN "sticker"
    ELSE IF "locationMessage" \in m.payloads THEN "location"
    ELSE IF "contactMessage" \in m.payloads THEN "contact"
    ELSE IF "ptvMessage" \in m.payloads THEN "video_note"
    ELSE IF m.text # <<>> THEN "text"
    ELSE "none"

\* The adapter a branch of the chains calls; syncMessage and syncOutgoingMessage
\* send a video note through handleWhatsAppMedia, with the type 'video_note'.
AdapterOf(by, variant) ==
    CASE variant \in {"image", "video", "audio", "document", "sticker"} -> "handleWhatsAppMedia"
      [] variant = "video_note" -> IF by = "processWhatsAppMessage"
                                   THEN "handleWhatsAppVideoNote" ELSE "handleWhatsAppMedia"
      [] variant = "location" -> "handleWhatsAppLocation"
      [] variant = "contact" -> "handleWhatsAppContact"
      [] variant = "text" -> "sendSimpleMessage"

\* The adapter calls of one pass through a chain.
Invoked(by, variant) ==
    IF variant = "none" THEN <<>>
    ELSE <<[adapter |-> AdapterOf(by, variant), variant |-> variant]>>

\* Any text at all.
AnyText(m) == m.text # <<>>
\* syncMessage line 827: a group text with '@all' or '@everyone' in it.
MentionsAll(m) ==
    /\ m.text # <<>>
    /\ m.sender = GroupJid
    /\ (Includes(m.text, "@all") \/ Includes(m.text, "@everyone"))

\* sendSimpleMessage lines 2122-2137: the sendMessage calls it makes for a
\* topic id, none without one.
SimpleMessageSends(topicId) ==
    IF topicId = None THEN <<>> ELSE <<[call |-> "sendMessage", thread |-> topicId]>>
\* The Telegram send calls an adapter makes when its preparation (the download
\* of the media) has gone well: sendSimpleMessage and handleQuotedMessage
\* (line 936) send through sendSimpleMessage; handleWhatsAppMedia (lines
\* 1408-1486), handleWhatsAppLocation (line 1546) and handleWhatsAppContact call
\* the bot with message_thread_id: topicId, whatever topicId is.
AdapterSends(adapter, topicId) ==
    IF adapter \in {"sendSimpleMessage", "handleQuotedMessage"}
    THEN SimpleMessageSends(topicId)
    ELSE <<[call |-> adapter, thread |-> topicId]>>

\* syncMessage lines 831-867, from the return of handleMentionAll to the await
\* of the adapter: a quoted message goes to handleQuotedMessage and the chain
\* is skipped.
Relay(m) ==
    IF m.quoted
    THEN <<[adapter |-> "handleQuotedMessage", variant |-> "text"]>>
    ELSE Invoked("syncMessage", ContentVariant(m))

\* syncMessage lines 803-837 for an incoming message of a chat (not from the
\* own account, not a status), from the return of getOrCreateTopic: a group
\* text with a mention token enters handleMentionAll (lines 875-887), which
\* fetches the participants when none are cached; everything else goes to the
\* relay.  topicId is what getOrCreateTopic has returned, None for null.
SyncMessageRelay(m, topicId) ==
    /\ sync.pc = "idle"
    /\ UNCHANGED groupParticipants
    /\ IF MentionsAll(m)
       THEN /\ sync' = [pc |-> IF groupParticipants THEN "broadcast" ELSE "fetch",
                         by |-> "syncMessage", msg |-> m, topicId |-> topicId,
                         sends |-> <<>>]
            /\ adapters' = <<>>
            /\ mention' = "started"
       ELSE /\ sync' = [pc |-> IF Relay(m) = <<>> THEN "done" ELSE "adapter",
                         by |-> "syncMessage", msg |-> m, topicId |-> topicId,
                         sends |-> <<>>]
            /\ adapters' = Relay(m)
            /\ mention' = "none"
    /\ UNCHANGED <<topicVars, queueVars, gateVars, revokeVars, startVars, timerVars, userVars, replyVars, bootVars, pollVars, receiptVars, ephemeralVars, shutdownVars, mentionVars>>

\* handleMentionAll lines 882-888: groupMetadata has been answered; the list is
\* cached and the broadcast goes out, or the sub-flow returns and the relay
\* goes on.
MentionFetchDone ==
    /\ sync.pc = "fetch"
    /\ \E ok \in BOOLEAN :
          IF ok
          THEN /\ groupParticipants' = TRUE
               /\ sync' = [sync EXCEPT !.pc = "broadcast"]
               /\ UNCHANGED <<adapters, mention>>
          ELSE /\ mention' = "fetchFailed"
               /\ adapters' = Relay(sync.msg)
               /\ sync' = [sync EXCEPT !.pc = "adapter"]
               /\ UNCHANGED groupParticipants
    /\ UNCHANGED <<topicVars, queueVars, gateVars, revokeVars, startVars, timerVars, userVars, replyVars, bootVars, pollVars, receiptVars, ephemeralVars, shutdownVars, mentionVars>>

\* handleMentionAll lines 896-906: sock.sendMessage of the mention text has
\* been answered; the notice to the topic follows, a rejection is caught
\* (lines 908-910) and the relay goes on.
MentionBroadcastDone ==
    /\ sync.pc = "broadcast"
    /\ \E ok \in BOOLEAN :
          IF ok
          THEN /\ mention' = "sent"
               /\ sync' = [sync EXCEPT !.pc = "notice"]
               /\ UNCHANGED adapters
          ELSE /\ mention' = "sendFailed"
               /\ adapters' = Relay(sync.msg)
               /\ sync' = [sync EXCEPT !.pc = "adapter"]
    /\ UNCHANGED groupParticipants
    /\ UNCHANGED <<topicVars, queueVars, gateVars, revokeVars, startVars, timerVars, userVars, replyVars, bootVars, pollVars, receiptVars, ephemeralVars, shutdownVars, mentionVars>>

\* handleMentionAll line 906: sendSimpleMessage has returned (it catches its
\* errors) and syncMessage goes on with the relay.
MentionNoticeDone ==
    /\ sync.pc = "notice"
    /\ adapters' = Relay(sync.msg)
    /\ sync' = [sync EXCEPT !.pc = "adapter",
                            !.sends = @ \o SimpleMessageSends(sync.topicId)]
    /\ UNCHANGED <<mention, groupParticipants>>
    /\ UNCHANGED <<topicVars, queueVars, gateVars, revokeVars, startVars, timerVars, userVars, replyVars, bootVars, pollVars, receiptVars, ephemeralVars, shutdownVars, mentionVars>>

\* syncOutgoingMessage lines 1046-1074, for a message of the own account in a
\* chat that has a topic.
SyncOutgoingMessage(m) ==
    /\ sync.pc = "idle"
    /\ adapters' = Invoked("syncOutgoingMessage", ContentVariant(m))
    /\ sync' = [pc |-> IF adapters' = <<>> THEN "done" ELSE "adapter",
                by |-> "syncOutgoingMessage", msg |-> m, topicId |-> 1, sends |-> <<>>]
    /\ mention' = "none"
    /\ UNCHANGED groupParticipants
    /\ UNCHANGED <<topicVars, queueVars, gateVars, revokeVars, startVars, timerVars, userVars, replyVars, bootVars, pollVars, receiptVars, ephemeralVars, shutdownVars, mentionVars>>

\* processWhatsAppMessage of src/telegram/bridge.js, lines 264-289, from the
\* return of getOrCreateTopic with a topic.
ProcessWhatsAppMessage(m) ==
    /\ sync.pc = "idle"
    /\ adapters' = Invoked("processWhatsAppMessage", BridgeContentVariant(m))
    /\ sync' = [pc |-> IF adapters' = <<>> THEN "done" ELSE "adapter",
                by |-> "processWhatsAppMessage", msg |-> m, topicId |-> 1, sends |-> <<>>]
    /\ mention' = "none"
    /\ UNCHANGED groupParticipants
    /\ UNCHANGED <<topicVars, queueVars, gateVars, revokeVars, startVars, timerVars, userVars, replyVars, bootVars, pollVars, receiptVars, ephemeralVars, shutdownVars, mentionVars>>

\* The awaited adapter has returned: it has made its send calls, or has given
\* up before them (a failed download); every adapter catches its own errors.
AdapterDone ==
    /\ sync.pc = "adapter"
    /\ \E prepared \in BOOLEAN :
          sync' = [sync EXCEPT !.pc = "done",
                               !.sends = IF prepared
                                         THEN @ \o AdapterSends(adapters[1].adapter, sync.topicId)
                                         ELSE @]
    /\ UNCHANGED <<adapters, mention, groupParticipants>>
    /\ UNCHANGED <<topicVars, queueVars, gateVars, revokeVars, startVars, timerVars, userVars, replyVars, bootVars, pollVars, receiptVars, ephemeralVars, shutdownVars, mentionVars>>

\* The call has returned; the histories start anew with the next message.
SyncReturn ==
    /\ sync.pc = "done"
    /\ sync' = [pc |-> "idle", by |-> "none", msg |-> NoWaMessage, topicId |-> None,
                sends |-> <<>>]
    /\ adapters' = <<>>
    /\ mention' = "none"
    /\ UNCHANGED groupParticipants
    /\ UNCHANGED <<topicVars, queueVars, gateVars, revokeVars, startVars, timerVars, userVars, replyVars, bootVars, pollVars, receiptVars, ephemeralVars, shutdownVars, mentionVars>>

SyncNext ==
    \/ \E m \in Messages, topicId \in {None, 1} : SyncMessageRelay(m, topicId)
    \/ MentionFetchDone
    \/ MentionBroadcastDone
    \/ MentionNoticeDone
    \/ \E m \in Messages : SyncOutgoingMessage(m)
    \/ \E m \in Messages : ProcessWhatsAppMessage(m)
    \/ AdapterDone
    \/ SyncReturn

\* ======================================================================
\* Part VIII: src/TelegramBridge.js, the user mappings (createUserMapping,
\* saveUserMapping)
\* ======================================================================
UserMsgs == 1..MaxUserMsgs
ParticipantJids == {"2@s.whatsapp.net", "3@s.whatsapp.net"}
NoUserData == [messageCount |-> 0, firstSeen |-> None]
NewUProc == [pc |-> "new", participant |-> "", ref |-> None]

UserInit ==
    /\ userMappings = [P \in ParticipantJids |-> None]
    /\ userData = [m \in UserMsgs |-> NoUserData]
    /\ dbUser = [P \in ParticipantJids |-> NoUserData]
    /\ uproc = [m \in UserMsgs |-> NewUProc]

\* createUserMapping line 1107: this.userMappings.has(participant)
UserMappingsHas(map, participant) == map[participant] # None

\* createUserMapping lines 1106-1132, up to the await of updateOne in
\* saveUserMapping (line 260), for message m (syncMessage line 823).  With an
\* entry the count of its object is raised in place; without one a new object
\* is made with the count 1 and the time of this message.
CreateUserMapping(m, participant) ==
    /\ uproc[m].pc = "new"
    /\ \A k \in UserMsgs : k < m => uproc[k].pc # "new"
    /\ IF UserMappingsHas(userMappings, participant)
       THEN /\ userData' = [userData EXCEPT ![userMappings[participant]].messageCount = @ + 1]
            /\ uproc' = [uproc EXCEPT ![m] = [pc |-> "save", participant |-> participant,
                                              ref |-> userMappings[participant]]]
       ELSE /\ userData' = [userData EXCEPT ![m] = [messageCount |-> 1, firstSeen |-> m]]
            /\ uproc' = [uproc EXCEPT ![m] = [pc |-> "save", participant |-> participant,
                                              ref |-> m]]
    /\ UNCHANGED <<userMappings, dbUser>>
    /\ UNCHANGED <<topicVars, queueVars, gateVars, revokeVars, startVars, timerVars, syncVars, replyVars, bootVars, pollVars, receiptVars, ephemeralVars, shutdownVars, mentionVars>>

\* saveUserMapping lines 260-281: updateOne has been answered; after a
\* success the object is stored under the participant, a rejection is caught
\* and the map is left as it is.
SaveUserMappingDone(m) ==
    /\ uproc[m].pc = "save"
    /\ uproc' = [uproc EXCEPT ![m].pc = "done"]
    /\ \E ok \in BOOLEAN :
          IF ok
          THEN /\ dbUser' = [dbUser EXCEPT ![uproc[m].participant] = userData[uproc[m].ref]]
               /\ userMappings' = [userMappings EXCEPT ![uproc[m].participant] = uproc[m].ref]
          ELSE UNCHANGED <<dbUser, userMappings>>
    /\ UNCHANGED userData
    /\ UNCHANGED <<topicVars, queueVars, gateVars, revokeVars, startVars, timerVars, syncVars, replyVars, bootVars, pollVars, receiptVars, ephemeralVars, shutdownVars, mentionVars>>

UserNext ==
    \/ \E m \in UserMsgs, P \in ParticipantJids : CreateUserMapping(m, P)
    \/ \E m \in UserMsgs : SaveUserMappingDone(m)

\* ======================================================================
\* Part IX: the relay of one message with its acknowledgement
\* (handleTelegramMessage, handleTelegramText, handleTelegramMedia,
\* handleTelegramSticker and the sticker case of handleWhatsAppMedia in
\* src/TelegramBridge.js; handleTelegramMessage in src/telegram/bridge.js)
\* ======================================================================
TgMsgs == 1..MaxTgMsgs
\* The content of a Telegram message; "poll" stands for every content no branch
\* of the handlers tests for.
TgKinds == {"text", "photo", "sticker", "poll"}
\* What an awaited whatsappBot.sendMessage gives: a result with key.id, a
\* result without, or a rejection.
SendResults == {"key", "noKey", "error"}
\* by: the handler; reactions: the reactions set on the Telegram message
\* ("thumbsUp", "cross"), in order; wa: what the WhatsApp chat has received;
\* topic: what the Telegram topic has received; native: how the native sticker
\* send went; fallback: how far the PNG fallback got.
NewTProc == [pc |-> "new", by |-> "none", kind |-> "none", reactions |-> <<>>,
             wa |-> "none", topic |-> "none", native |-> "none", fallback |-> "none"]

ReplyInit == tproc = [n \in TgMsgs |-> NewTProc]

\* Messages are taken in the order 1, 2, ...
NextTgMsg(n) == tproc[n].pc = "new" /\ \A k \in TgMsgs : k < n => tproc[k].pc # "new"
SetReaction(t, emoji) == [t EXCEPT !.reactions = Append(@, emoji)]
TDone(t) == [t EXCEPT !.pc = "done"]
\* Lines 1699-1705, 1927-1933, 2003-2009: with telegram.features.revokeButtons
\* on, the handler goes on to send the revoke button after the thumbs-up.
AfterThumbsUp(t, withButton) ==
    IF withButton THEN [t EXCEPT !.pc = "revokeButton"] ELSE TDone(t)

\* handleTelegramMessage lines 1609-1666 of TelegramBridge.js for a message in
\* the topic of a mapped chat, from the return of sendTypingPresence: text goes
\* to handleTelegramText (await of sendMessage, line 1693), a photo or a
\* sticker to handleTelegramMedia (awaits of the download, lines 1790-1837);
\* with no branch for the content the handler ends.
HandleTelegramMessage(n, kind) ==
    /\ NextTgMsg(n)
    /\ tproc' = [tproc EXCEPT ![n] =
                   [@ EXCEPT !.by = "TelegramBridge", !.kind = kind,
                             !.pc = CASE kind = "text" -> "textSend"
                                      [] kind \in {"photo", "sticker"} -> "mediaFetch"
                                      [] OTHER -> "done"]]
    /\ UNCHANGED <<topicVars, queueVars, gateVars, revokeVars, startVars, timerVars, syncVars, userVars, bootVars, pollVars, receiptVars, ephemeralVars, shutdownVars, mentionVars>>

\* handleTelegramText lines 1693-1714: sendMessage has been answered.  With a
\* key id the message gets the thumbs-up; without one nothing is set; a
\* rejection is caught and the cross is set.
TextSendDone(n) ==
    /\ tproc[n].pc = "textSend"
    /\ \E res \in SendResults, withButton \in BOOLEAN :
          tproc' = [tproc EXCEPT ![n] =
                       CASE res = "key" -> AfterThumbsUp(SetReaction([@ EXCEPT !.wa = "text"],
                                                                     "thumbsUp"), withButton)
                         [] res = "noKey" -> TDone(@)
                         [] res = "error" -> TDone(SetReaction(@, "cross"))]
    /\ UNCHANGED <<topicVars, queueVars, gateVars, revokeVars, startVars, timerVars, syncVars, userVars, bootVars, pollVars, receiptVars, ephemeralVars, shutdownVars, mentionVars>>

\* handleTelegramMedia lines 1832-1914: the file has been fetched and written,
\* or not (the catch of line 1943 sets the cross).  A sticker goes on in
\* handleTelegramSticker (lines 1959-1966), anything else is sent.
MediaFetchDone(n) ==
    /\ tproc[n].pc = "mediaFetch"
    /\ \E ok \in BOOLEAN :
          tproc' = [tproc EXCEPT ![n] =
                       IF ~ok THEN TDone(SetReaction(@, "cross"))
                       ELSE IF tproc[n].kind = "sticker" THEN [@ EXCEPT !.pc = "stickerPrepare"]
                       ELSE [@ EXCEPT !.pc = "mediaSend"]]
    /\ UNCHANGED <<topicVars, queueVars, gateVars, revokeVars, startVars, timerVars, syncVars, userVars, bootVars, pollVars, receiptVars, ephemeralVars, shutdownVars, mentionVars>>

\* handleTelegramMedia lines 1917-1946: sendMessage has been answered; only a
\* result with a key id gets the thumbs-up.
MediaSendDone(n) ==
    /\ tproc[n].pc = "mediaSend"
    /\ \E res \in SendResults, withButton \in BOOLEAN :
          tproc' = [tproc EXCEPT ![n] =
                       IF res = "key"
                       THEN AfterThumbsUp(SetReaction([@ EXCEPT !.wa = "media"], "thumbsUp"),
                                          withButton)
                       ELSE TDone(SetReaction(@, "cross"))]
    /\ UNCHANGED <<topicVars, queueVars, gateVars, revokeVars, startVars, timerVars, syncVars, userVars, bootVars, pollVars, receiptVars, ephemeralVars, shutdownVars, mentionVars>>

\* handleTelegramSticker lines 2013-2025, the catch: the cross is set; the
\* fallback reads stickerBuffer, a const of the try block that does not exist
\* in the catch block, so the handler throws before any photo is sent; the
\* catch of handleTelegramMedia (line 1943) sets the cross again.
StickerCatch(t) ==
    TDone(SetReaction(SetReaction([t EXCEPT !.native = "failed", !.fallback = "failed"],
                                  "cross"), "cross"))

\* handleTelegramSticker lines 1959-1989: the sticker has been fetched and
\* converted, or one of these steps has failed.
StickerPrepareDone(n) ==
    /\ tproc[n].pc = "stickerPrepare"
    /\ \E ok \in BOOLEAN :
          tproc' = [tproc EXCEPT ![n] =
                       IF ok THEN [@ EXCEPT !.pc = "stickerSend"] ELSE StickerCatch(@)]
    /\ UNCHANGED <<topicVars, queueVars, gateVars, revokeVars, startVars, timerVars, syncVars, userVars, bootVars, pollVars, receiptVars, ephemeralVars, shutdownVars, mentionVars>>

\* handleTelegramSticker lines 1991-2012: sendMessage of the sticker has been
\* answered; a result without key id is thrown as an error.
StickerSendDone(n) ==
    /\ tproc[n].pc = "stickerSend"
    /\ \E res \in SendResults, withButton \in BOOLEAN :
          tproc' = [tproc EXCEPT ![n] =
                       IF res = "key"
                       THEN AfterThumbsUp(SetReaction([@ EXCEPT !.wa = "sticker", !.native = "ok"],
                                                      "thumbsUp"), withButton)
                       ELSE StickerCatch(@)]
    /\ UNCHANGED <<topicVars, queueVars, gateVars, revokeVars, startVars, timerVars, syncVars, userVars, bootVars, pollVars, receiptVars, ephemeralVars, shutdownVars, mentionVars>>

\* telegramBot.sendMessage of the revoke button (lines 1701, 1929, 2005) has
\* been answered.  A rejection is thrown inside the try block of the handler:
\* its catch sets the cross (lines 1712, 1945); the catch of
\* handleTelegramSticker (line 2015) sets the cross and throws on the
\* stickerBuffer it cannot see, and the catch of handleTelegramMedia sets the
\* cross again.
RevokeButtonDone(n) ==
    /\ tproc[n].pc = "revokeButton"
    /\ \E ok \in BOOLEAN :
          tproc' = [tproc EXCEPT ![n] =
                       IF ok THEN TDone(@)
                       ELSE IF tproc[n].kind = "sticker"
                       THEN TDone(SetReaction(SetReaction([@ EXCEPT !.fallback = "failed"],
                                                          "cross"), "cross"))
                       ELSE TDone(SetReaction(@, "cross"))]
    /\ UNCHANGED <<topicVars, queueVars, gateVars, revokeVars, startVars, timerVars, syncVars, userVars, bootVars, pollVars, receiptVars, ephemeralVars, shutdownVars, mentionVars>>

\* handleTelegramMessage lines 717-765 of src/telegram/bridge.js for a message
\* in the topic of a mapped chat: the handler of the content is awaited; with
\* no branch for the content sendResult stays null and the cross is set.
BridgeHandleTelegramMessage(n, kind) ==
    /\ NextTgMsg(n)
    /\ tproc' = [tproc EXCEPT ![n] =
                   IF kind = "poll"
                   THEN TDone(SetReaction([@ EXCEPT !.by = "bridge", !.kind = kind], "cross"))
                   ELSE [@ EXCEPT !.by = "bridge", !.kind = kind, !.pc = "bridgeSend"]]
    /\ UNCHANGED <<topicVars, queueVars, gateVars, revokeVars, startVars, timerVars, syncVars, userVars, bootVars, pollVars, receiptVars, ephemeralVars, shutdownVars, mentionVars>>

\* src/telegram/bridge.js lines 766-790: the handler has returned its result or
\* thrown; a result with a key id gets the thumbs-up, everything else the cross.
BridgeSendDone(n) ==
    /\ tproc[n].pc = "bridgeSend"
    /\ \E res \in SendResults :
          tproc' = [tproc EXCEPT ![n] =
                       IF res = "key"
                       THEN TDone(SetReaction([@ EXCEPT !.wa = tproc[n].kind], "thumbsUp"))
                       ELSE TDone(SetReaction(@, "cross"))]
    /\ UNCHANGED <<topicVars, queueVars, gateVars, revokeVars, startVars, timerVars, syncVars, userVars, bootVars, pollVars, receiptVars, ephemeralVars, shutdownVars, mentionVars>>

\* handleWhatsAppMedia lines 1332-1472 of TelegramBridge.js for a WhatsApp
\* sticker, up to the await of sendSticker: the file has been downloaded and
\* written.
HandleWhatsAppSticker(n) ==
    /\ NextTgMsg(n)
    /\ tproc' = [tproc EXCEPT ![n] =
                   [@ EXCEPT !.by = "handleWhatsAppMedia", !.kind = "sticker",
                             !.pc = "sendSticker"]]
    /\ UNCHANGED <<topicVars, queueVars, gateVars, revokeVars, startVars, timerVars, syncVars, userVars, bootVars, pollVars, receiptVars, ephemeralVars, shutdownVars, mentionVars>>

\* Lines 1471-1478: sendSticker has been answered; after a rejection the file
\* is converted to PNG.
SendStickerDone(n) ==
    /\ tproc[n].pc = "sendSticker"
    /\ \E ok \in BOOLEAN :
          tproc' = [tproc EXCEPT ![n] =
                       IF ok THEN TDone([@ EXCEPT !.topic = "sticker", !.native = "ok"])
                       ELSE [@ EXCEPT !.native = "failed", !.pc = "toPng"]]
    /\ UNCHANGED <<topicVars, queueVars, gateVars, revokeVars, startVars, timerVars, syncVars, userVars, bootVars, pollVars, receiptVars, ephemeralVars, shutdownVars, mentionVars>>

\* Lines 1477-1480: sharp has written the PNG and sendPhoto is awaited, or the
\* conversion has failed (caught at line 1505).
ToPngDone(n) ==
    /\ tproc[n].pc = "toPng"
    /\ \E ok \in BOOLEAN :
          tproc' = [tproc EXCEPT ![n] =
                       IF ok THEN [@ EXCEPT !.pc = "sendPhoto"]
                       ELSE TDone([@ EXCEPT !.fallback = "failed"])]
    /\ UNCHANGED <<topicVars, queueVars, gateVars, revokeVars, startVars, timerVars, syncVars, userVars, bootVars, pollVars, receiptVars, ephemeralVars, shutdownVars, mentionVars>>

\* Lines 1480-1506: sendPhoto to the topic has been answered.
SendPhotoDone(n) ==
    /\ tproc[n].pc = "sendPhoto"
    /\ \E ok \in BOOLEAN :
          tproc' = [tproc EXCEPT ![n] =
                       IF ok THEN TDone([@ EXCEPT !.topic = "photo", !.fallback = "ok"])
                       ELSE TDone([@ EXCEPT !.fallback = "failed"])]
    /\ UNCHANGED <<topicVars, queueVars, gateVars, revokeVars, startVars, timerVars, syncVars, userVars, bootVars, pollVars, receiptVars, ephemeralVars, shutdownVars, mentionVars>>

ReplyNext ==
    \/ \E n \in TgMsgs, kind \in TgKinds : HandleTelegramMessage(n, kind)
    \/ \E n \in TgMsgs : TextSendDone(n)
    \/ \E n \in TgMsgs : MediaFetchDone(n)
    \/ \E n \in TgMsgs : MediaSendDone(n)
    \/ \E n \in TgMsgs : StickerPrepareDone(n)
    \/ \E n \in TgMsgs : StickerSendDone(n)
    \/ \E n \in TgMsgs : RevokeButtonDone(n)
    \/ \E n \in TgMsgs, kind \in TgKinds : BridgeHandleTelegramMessage(n, kind)
    \/ \E n \in TgMsgs : BridgeSendDone(n)
    \/ \E n \in TgMsgs : HandleWhatsAppSticker(n)
    \/ \E n \in TgMsgs : SendStickerDone(n)
    \/ \E n \in TgMsgs : ToPngDone(n)
    \/ \E n \in TgMsgs : SendPhotoDone(n)

\* ======================================================================
\* Part XI: src/TelegramBridge.js, polling-error recovery (the 'polling_error'
\* listener of setupTelegramHandlers, restartTelegramBot)
\* ======================================================================
Restarts == 1..MaxRestarts
\* The TelegramBot instances: the one of initialize and one per restart.
Bots == 1..(MaxRestarts + 1)
NewRestart == [pc |-> "new", bot |-> None]

PollInit ==
    /\ pollingRetries = 0
    /\ pollers = [b \in Bots |-> IF b = 1 THEN "polling" ELSE "none"]
    /\ currentBot = 1
    /\ restartProc = [r \in Restarts |-> NewRestart]

\* Line 438: this.pollingRetries >= this.maxPollingRetries
MaxRetriesReached(retries) == retries >= MaxPollingRetries

\* The 'polling_error' listener, lines 434-442, for an error of bot b (a bot
\* that polls, or one whose last request is still out while stopPolling is
\* awaited): the counter is raised; at the maximum restartTelegramBot is
\* called and runs up to its await of stopPolling (lines 560-566) on the bot
\* this.telegramBot refers to.
PollingError(b) ==
    /\ pollers[b] \in {"polling", "stopping"}
    /\ pollingRetries < MaxPollingErrors
    /\ pollingRetries' = pollingRetries + 1
    /\ IF MaxRetriesReached(pollingRetries + 1)
       THEN \E r \in Restarts :
               /\ restartProc[r].pc = "new"
               /\ \A q \in Restarts : q < r => restartProc[q].pc # "new"
               /\ restartProc' = [restartProc EXCEPT ![r] = [pc |-> "stopping",
                                                             bot |-> currentBot]]
               /\ pollers' = [pollers EXCEPT ![currentBot] = "stopping"]
       ELSE UNCHANGED <<restartProc, pollers>>
    /\ UNCHANGED currentBot
    /\ UNCHANGED <<topicVars, queueVars, gateVars, revokeVars, startVars, timerVars, syncVars, userVars, replyVars, bootVars, receiptVars, ephemeralVars, shutdownVars, mentionVars>>

\* The 'message' listener, line 450: a message of a polling bot resets the
\* counter.
PollingMessage(b) ==
    /\ pollers[b] = "polling"
    /\ pollingRetries # 0
    /\ pollingRetries' = 0
    /\ UNCHANGED <<pollers, currentBot, restartProc>>
    /\ UNCHANGED <<topicVars, queueVars, gateVars, revokeVars, startVars, timerVars, syncVars, userVars, replyVars, bootVars, receiptVars, ephemeralVars, shutdownVars, mentionVars>>

\* restartTelegramBot lines 564-568: stopPolling has been answered; the bot has
\* stopped and the 5 s wait begins, or the rejection is caught (line 594) and
\* the restart ends with the bot still polling.
StopPollingDone(r) ==
    /\ restartProc[r].pc = "stopping"
    /\ \E ok \in BOOLEAN :
          IF ok
          THEN /\ restartProc' = [restartProc EXCEPT ![r].pc = "waiting"]
               /\ pollers' = [pollers EXCEPT ![restartProc[r].bot] = "stopped"]
          ELSE /\ restartProc' = [restartProc EXCEPT ![r].pc = "failed"]
               /\ pollers' = [pollers EXCEPT ![restartProc[r].bot] =
                                 IF @ = "stopping" THEN "polling" ELSE @]
    /\ UNCHANGED <<pollingRetries, currentBot>>
    /\ UNCHANGED <<topicVars, queueVars, gateVars, revokeVars, startVars, timerVars, syncVars, userVars, replyVars, bootVars, receiptVars, ephemeralVars, shutdownVars, mentionVars>>

\* Lines 568-593: the wait is over; a new polling bot replaces
\* this.telegramBot, its handlers are set up and the counter is reset.
RestartWaitDone(r) ==
    /\ restartProc[r].pc = "waiting"
    /\ \E b \in Bots :
          /\ pollers[b] = "none"
          /\ \A c \in Bots : c < b => pollers[c] # "none"
          /\ pollers' = [pollers EXCEPT ![b] = "polling"]
          /\ currentBot' = b
    /\ pollingRetries' = 0
    /\ restartProc' = [restartProc EXCEPT ![r].pc = "done"]
    /\ UNCHANGED <<topicVars, queueVars, gateVars, revokeVars, startVars, timerVars, syncVars, userVars, replyVars, bootVars, receiptVars, ephemeralVars, shutdownVars, mentionVars>>

PollNext ==
    \/ \E b \in Bots : PollingError(b)
    \/ \E b \in Bots : PollingMessage(b)
    \/ \E r \in Restarts : StopPollingDone(r)
    \/ \E r \in Restarts : RestartWaitDone(r)

\* ======================================================================
\* Part XII: src/TelegramBridge.js, the read receipts of one chat with the
\* keys told apart (queueMessageForReadReceipt, processReadReceipts)
\* ======================================================================
Keys == 1..MaxKeys
\* Every successful processReadReceipts call puts a new array in the map.
Arrays == 1..(MaxKeys + 1)
NewReceipt == [pc |-> "new", arr |-> None, sent |-> <<>>]

ReceiptInit ==
    /\ receiptArrays = [a \in Arrays |-> <<>>]
    /\ receiptQueue = 1
    /\ receiptProc = [k \in Keys |-> NewReceipt]
    /\ readKeys = {}

SeqRange(q) == {q[i] : i \in 1..Len(q)}
QueuedKeys == {k \in Keys : receiptProc[k].pc # "new"}

\* queueMessageForReadReceipt lines 1076-1088 with key k: the key is pushed
\* onto the chat's array and a 2 s timer is set.
QueueReadReceiptKey(k) ==
    /\ receiptProc[k].pc = "new"
    /\ \A j \in Keys : j < k => receiptProc[j].pc # "new"
    /\ receiptArrays' = [receiptArrays EXCEPT ![receiptQueue] = Append(@, k)]
    /\ receiptProc' = [receiptProc EXCEPT ![k].pc = "timer"]
    /\ UNCHANGED <<receiptQueue, readKeys>>
    /\ UNCHANGED <<topicVars, queueVars, gateVars, revokeVars, startVars, timerVars, syncVars, userVars, replyVars, bootVars, pollVars, ephemeralVars, shutdownVars, mentionVars>>

\* The timer of key k fires: processReadReceipts lines 1090-1096 takes the
\* chat's array, returns when it is empty and calls readMessages with it
\* otherwise.
ReceiptTimerFired(k) ==
    /\ receiptProc[k].pc = "timer"
    /\ receiptProc' = [receiptProc EXCEPT ![k] =
          IF receiptArrays[receiptQueue] = <<>>
          THEN [@ EXCEPT !.pc = "done"]
          ELSE [@ EXCEPT !.pc = "called", !.arr = receiptQueue]]
    /\ UNCHANGED <<receiptArrays, receiptQueue, readKeys>>
    /\ UNCHANGED <<topicVars, queueVars, gateVars, revokeVars, startVars, timerVars, syncVars, userVars, replyVars, bootVars, pollVars, ephemeralVars, shutdownVars, mentionVars>>

\* readMessages (line 1096) takes the keys out of the array it was given, at
\* some moment of the call.
ReadMessagesSent(k) ==
    /\ receiptProc[k].pc = "called"
    /\ receiptProc' = [receiptProc EXCEPT ![k].pc = "sent",
                                          ![k].sent = receiptArrays[receiptProc[k].arr]]
    /\ UNCHANGED <<receiptArrays, receiptQueue, readKeys>>
    /\ UNCHANGED <<topicVars, queueVars, gateVars, revokeVars, startVars, timerVars, syncVars, userVars, replyVars, bootVars, pollVars, ephemeralVars, shutdownVars, mentionVars>>

\* Lines 1096-1103: readMessages is answered; after a success the map gets a
\* new empty array for the chat (line 1100), a failure is caught and leaves it.
ReceiptDone(k) ==
    /\ receiptProc[k].pc = "sent"
    /\ \E ok \in BOOLEAN :
          IF ok
          THEN /\ readKeys' = readKeys \cup SeqRange(receiptProc[k].sent)
               /\ receiptQueue' = receiptQueue + 1
          ELSE UNCHANGED <<readKeys, receiptQueue>>
    /\ receiptProc' = [receiptProc EXCEPT ![k].pc = "done"]
    /\ UNCHANGED receiptArrays
    /\ UNCHANGED <<topicVars, queueVars, gateVars, revokeVars, startVars, timerVars, syncVars, userVars, replyVars, bootVars, pollVars, ephemeralVars, shutdownVars, mentionVars>>

ReceiptNext ==
    \/ \E k \in Keys : QueueReadReceiptKey(k)
    \/ \E k \in Keys : ReceiptTimerFired(k)
    \/ \E k \in Keys : ReadMessagesSent(k)
    \/ \E k \in Keys : ReceiptDone(k)

\* ======================================================================
\* Part XIII: src/TelegramBridge.js, the ephemeral settings
\* (TelegramCommands.handleEphemeral, the 'ephemeral' case of
\* loadMappingsFromDb)
\* ======================================================================
\* The third argument of /ephemeral; "1h" stands for every other word.
Timers == {"24h", "7d", "90d", "1h"}
EphemeralActions == {"on", "off", "toggle"}
NoSetting == [enabled |-> FALSE, timer |-> 0]
Untouched == [touched |-> FALSE, setting |-> NoSetting]

\* parseEphemeralTimer lines 5350-5357
ParseEphemeralTimer(timer) ==
    CASE timer = "24h" -> 86400
      [] timer = "7d" -> 604800
      [] timer = "90d" -> 7776000
      [] OTHER -> 604800

\* The empty cache of the constructor.
EphemeralCacheInit ==
    /\ ephemeralSettings = [j \in JIDs |-> NoSetting]
    /\ ephemeralSet = [j \in JIDs |-> Untouched]
    /\ ephemeralLoaded = FALSE
\* A collection without 'ephemeral' documents.
EphemeralInit ==
    /\ EphemeralCacheInit
    /\ dbEphemeral = [j \in JIDs |-> NoSetting]

\* handleEphemeral lines 4989-5001, action 'on': what the handler stores for
\* the chat in the cache; nothing is written to the collection.
EphemeralOnCache(m, jid, timer) ==
    [m EXCEPT ![jid] = [enabled |-> TRUE, timer |-> ParseEphemeralTimer(timer)]]

\* handleEphemeral lines 4973-5023 with a chat, an action word and a timer
\* word: the WhatsApp setting is sent (a rejection is caught, line 5018) and
\* the cache entry is set (on) or deleted (off); any other word is an error.
HandleEphemeral(jid, action, timer) ==
    /\ \E ok \in BOOLEAN :
          IF ok /\ action = "on"
          THEN /\ ephemeralSettings' = EphemeralOnCache(ephemeralSettings, jid, timer)
               /\ UNCHANGED dbEphemeral
               /\ ephemeralSet' = [ephemeralSet EXCEPT ![jid] =
                      [touched |-> TRUE,
                       setting |-> [enabled |-> TRUE, timer |-> ParseEphemeralTimer(timer)]]]
               /\ ephemeralLoaded' = FALSE
          ELSE IF ok /\ action = "off"
          THEN /\ ephemeralSettings' = [ephemeralSettings EXCEPT ![jid] = NoSetting]
               /\ ephemeralSet' = [ephemeralSet EXCEPT ![jid] =
                      [touched |-> TRUE, setting |-> NoSetting]]
               /\ ephemeralLoaded' = FALSE
               /\ UNCHANGED dbEphemeral
          ELSE UNCHANGED ephemeralVars
    /\ UNCHANGED <<topicVars, queueVars, gateVars, revokeVars, startVars, timerVars, syncVars, userVars, replyVars, bootVars, pollVars, receiptVars, shutdownVars, mentionVars>>

\* The cache is cleared and loadMappingsFromDb (lines 153-194, the case of
\* lines 176-181) sets an entry for every 'ephemeral' document.
ReloadEphemeral ==
    /\ ~ephemeralLoaded
    /\ ephemeralSettings' = dbEphemeral
    /\ ephemeralLoaded' = TRUE
    /\ UNCHANGED <<dbEphemeral, ephemeralSet>>
    /\ UNCHANGED <<topicVars, queueVars, gateVars, revokeVars, startVars, timerVars, syncVars, userVars, replyVars, bootVars, pollVars, receiptVars, shutdownVars, mentionVars>>

EphemeralNext ==
    \/ \E jid \in JIDs, action \in EphemeralActions, timer \in Timers :
          HandleEphemeral(jid, action, timer)
    \/ ReloadEphemeral

\* ======================================================================
\* Part XIV: src/telegram/bridge.js, shutdown beside the interval callbacks
\* (shutdown, startMessageQueueProcessor, startContactSyncScheduler, the typing
\* timeout of sendPresence)
\* ======================================================================
ShutdownInit ==
    /\ shutdownPc = "running"
    /\ typingTimeouts = {}
    /\ contactSyncTicks = 0
    /\ typingResets = 0

\* shutdown lines 1245-1259: the presence and typing timeouts are cleared and
\* stopPolling is awaited.  The intervals of startMessageQueueProcessor and
\* startContactSyncScheduler have no handle and are not cleared.
Shutdown ==
    /\ shutdownPc = "running"
    /\ shutdownPc' = "stopping"
    /\ typingTimeouts' = {}
    /\ UNCHANGED <<contactSyncTicks, typingResets>>
    /\ UNCHANGED <<topicVars, queueVars, gateVars, revokeVars, startVars, timerVars, syncVars, userVars, replyVars, bootVars, pollVars, receiptVars, ephemeralVars, mentionVars>>

\* Lines 1259-1266: stopPolling has been answered (an error is caught);
\* emptyDir is awaited.
ShutdownPollingStopped ==
    /\ shutdownPc = "stopping"
    /\ shutdownPc' = "cleaning"
    /\ UNCHANGED <<typingTimeouts, contactSyncTicks, typingResets>>
    /\ UNCHANGED <<topicVars, queueVars, gateVars, revokeVars, startVars, timerVars, syncVars, userVars, replyVars, bootVars, pollVars, receiptVars, ephemeralVars, mentionVars>>

\* Lines 1268-1276: emptyDir has been answered (an error is caught); shutdown
\* returns.
ShutdownComplete ==
    /\ shutdownPc = "cleaning"
    /\ shutdownPc' = "complete"
    /\ UNCHANGED <<typingTimeouts, contactSyncTicks, typingResets>>
    /\ UNCHANGED <<topicVars, queueVars, gateVars, revokeVars, startVars, timerVars, syncVars, userVars, replyVars, bootVars, pollVars, receiptVars, ephemeralVars, mentionVars>>

\* startContactSyncScheduler lines 78-85: the interval callback runs.
ContactSyncTick ==
    /\ contactSyncTicks < MaxSyncTicks
    /\ contactSyncTicks' = contactSyncTicks + 1
    /\ UNCHANGED <<shutdownPc, typingTimeouts, typingResets>>
    /\ UNCHANGED <<topicVars, queueVars, gateVars, revokeVars, startVars, timerVars, syncVars, userVars, replyVars, bootVars, pollVars, receiptVars, ephemeralVars, mentionVars>>

\* sendPresence(jid, 'composing') lines 660-688, called by the handlers of a
\* Telegram message (lines 189, 759): the chat's timeout is replaced by a new
\* one.
BSendPresence(jid) ==
    /\ typingResets + Cardinality(typingTimeouts) < MaxTypingResets
    /\ typingTimeouts' = typingTimeouts \cup {jid}
    /\ UNCHANGED <<shutdownPc, contactSyncTicks, typingResets>>
    /\ UNCHANGED <<topicVars, queueVars, gateVars, revokeVars, startVars, timerVars, syncVars, userVars, replyVars, bootVars, pollVars, receiptVars, ephemeralVars, mentionVars>>

\* Lines 673-680: the typing timeout of a chat fires, presence goes back to
\* 'available' and the entry is deleted.
TypingTimeoutFired(jid) ==
    /\ jid \in typingTimeouts
    /\ typingTimeouts' = typingTimeouts \ {jid}
    /\ typingResets' = typingResets + 1
    /\ UNCHANGED <<shutdownPc, contactSyncTicks>>
    /\ UNCHANGED <<topicVars, queueVars, gateVars, revokeVars, startVars, timerVars, syncVars, userVars, replyVars, bootVars, pollVars, receiptVars, ephemeralVars, mentionVars>>

\* The queue of Part II beside shutdown; Telegram messages arrive while the
\* bot polls.
ShutdownNext ==
    \/ \E j \in JIDs, fromMe \in BOOLEAN : SyncMessageB(j, fromMe)
    \/ \E th \in BTopics, userId \in Users :
          shutdownPc \in {"running", "stopping"} /\ TelegramMessage(th, userId)
    \/ Tick
    \/ \E t \in Tasks : TaskProgress(t)
    \/ Shutdown
    \/ ShutdownPollingStopped
    \/ ShutdownComplete
    \/ ContactSyncTick
    \/ \E jid \in JIDs : BSendPresence(jid)
    \/ \E jid \in JIDs : TypingTimeoutFired(jid)

\* ======================================================================
\* Part XV: src/TelegramBridge.js, the participants a mention broadcast names
\* (handleMentionAll, the 'group-participants.update' listener)
\* ======================================================================
\* this.whatsappBot.sock.user.id and two other members of the group.
OwnId == "bot@s.whatsapp.net"
MemberA == "a@s.whatsapp.net"
MemberB == "b@s.whatsapp.net"
\* The lists groupMetadata can answer with.
ParticipantLists == {<<OwnId>>, <<MemberA>>, <<OwnId, MemberA>>, <<MemberA, OwnId, MemberB>>}
MentionCalls == 1..MaxMentions
NoCache == [has |-> FALSE, list |-> <<>>]
NewMention == [pc |-> "new", participants |-> <<>>, fetched |-> <<>>, didFetch |-> FALSE,
               mentions |-> <<>>]

MentionInit ==
    /\ participantsCache = NoCache
    /\ mentionProc = [n \in MentionCalls |-> NewMention]

IsOther(p) == p # OwnId
\* participants.filter(p => p !== this.whatsappBot.sock.user.id), lines 891, 899
OtherParticipants(list) == SelectSeq(list, IsOther)

\* handleMentionAll lines 875-883: the local list is read from the cache (or
\* is empty); with an empty list groupMetadata is awaited.
HandleMentionAll(n) ==
    /\ mentionProc[n].pc = "new"
    /\ \A k \in MentionCalls : k < n => mentionProc[k].pc # "new"
    /\ mentionProc' = [mentionProc EXCEPT ![n] =
          [@ EXCEPT !.participants = participantsCache.list,
                    !.pc = IF participantsCache.list = <<>> THEN "fetch" ELSE "send"]]
    /\ UNCHANGED participantsCache
    /\ UNCHANGED <<topicVars, queueVars, gateVars, revokeVars, startVars, timerVars, syncVars, userVars, replyVars, bootVars, pollVars, receiptVars, ephemeralVars, shutdownVars>>

\* Lines 883-901: groupMetadata has been answered.  The fetched list is put in
\* the cache and the handler goes on with its local list to the await of the
\* broadcast; a rejection ends the handler (line 887).
GroupMetadataDone(n) ==
    /\ mentionProc[n].pc = "fetch"
    /\ \/ \E list \in ParticipantLists :
             /\ participantsCache' = [has |-> TRUE, list |-> list]
             /\ mentionProc' = [mentionProc EXCEPT ![n] =
                   [@ EXCEPT !.pc = "send", !.fetched = list, !.didFetch = TRUE]]
       \/ /\ mentionProc' = [mentionProc EXCEPT ![n].pc = "fetchFailed"]
          /\ UNCHANGED participantsCache
    /\ UNCHANGED <<topicVars, queueVars, gateVars, revokeVars, startVars, timerVars, syncVars, userVars, replyVars, bootVars, pollVars, receiptVars, ephemeralVars, shutdownVars>>

\* Lines 890-901: sock.sendMessage of the broadcast, with the mentions taken
\* from the local list, has been sent.
MentionSendMessageDone(n) ==
    /\ mentionProc[n].pc = "send"
    /\ mentionProc' = [mentionProc EXCEPT ![n] =
          [@ EXCEPT !.pc = "sent", !.mentions = OtherParticipants(mentionProc[n].participants)]]
    /\ UNCHANGED participantsCache
    /\ UNCHANGED <<topicVars, queueVars, gateVars, revokeVars, startVars, timerVars, syncVars, userVars, replyVars, bootVars, pollVars, receiptVars, ephemeralVars, shutdownVars>>

\* The 'group-participants.update' listener, lines 2276-2288: a cached group
\* gets the list groupMetadata answers with.
GroupParticipantsUpdate(list) ==
    /\ participantsCache.has
    /\ participantsCache.list # list
    /\ participantsCache' = [has |-> TRUE, list |-> list]
    /\ UNCHANGED mentionProc
    /\ UNCHANGED <<topicVars, queueVars, gateVars, revokeVars, startVars, timerVars, syncVars, userVars, replyVars, bootVars, pollVars, receiptVars, ephemeralVars, shutdownVars>>

MentionNext ==
    \/ \E n \in MentionCalls : HandleMentionAll(n)
    \/ \E n \in MentionCalls : GroupMetadataDone(n)
    \/ \E n \in MentionCalls : MentionSendMessageDone(n)
    \/ \E list \in ParticipantLists : GroupParticipantsUpdate(list)

\* ======================================================================
\* Part X: src/TelegramBridge.js, inbound events while initialize runs over a
\* store that holds mappings of an earlier run
\* ======================================================================
\* The 'chat' documents an earlier run has left in the store.
PersistedChats == {[jid |-> PrivateJid, topic |-> 1]}

BootInit == inbound = <<>>

\* The bridge as its constructor leaves it at a restart: a usable
\* configuration, the topic of the earlier run at Telegram and its mapping in
\* the store, nothing in the caches.
Restarted ==
    /\ QueueInit /\ RevokeInit /\ TimerInit /\ SyncInit /\ UserInit /\ ReplyInit /\ BootInit
    /\ PollInit /\ ReceiptInit /\ EphemeralInit /\ ShutdownInit /\ MentionInit
    /\ chatMappings = <<>>
    /\ dbChat = PersistedChats
    /\ topicsLive = {r.topic : r \in PersistedChats}
    /\ created = <<[jid |-> PrivateJid, fresh |-> TRUE, replaces |-> None]>>
    /\ proc = [p \in Procs |-> IdleProc]
    /\ rIdx = 0
    /\ toRecreate = <<>>
    /\ config = ValidConfig
    /\ telegramBot = FALSE
    /\ collection = FALSE
    /\ handlersSet = FALSE
    /\ ipc = "new"
    /\ syncCalls = 0
    /\ synced = 0
    /\ authorizedUsers = {}
    /\ blockedUsers = {}
    /\ rateLimiter = [u \in Users |-> NoEntry]
    /\ now = 0
    /\ calls = [u \in Users |-> [start |-> 0, n |-> 0]]
    /\ last = NoMessage

\* findWhatsAppJidByTopic lines 2147-2154: the first chat of the cache mapped to
\* the topic, None (null) when there is none.
FindWhatsAppJidByTopic(m, topicId) ==
    IF \E i \in 1..Len(m) : m[i].topic = topicId
    THEN m[CHOOSE i \in 1..Len(m) :
              /\ m[i].topic = topicId
              /\ \A k \in 1..(i - 1) : m[k].topic # topicId].jid
    ELSE NoJid

\* syncMessage lines 803-824 for an incoming message of chat j, with
\* getOrCreateTopic (lines 1136-1201) taken in one step and every call of it
\* answered with success: behind the guard of line 804 a chat without a cache
\* entry gets a new topic, which saveChatMapping stores (in the store only with
\* a collection).
BootSyncMessage(j) ==
    /\ Len(inbound) < MaxInbound
    /\ ipc \in {"db", "dir", "commands", "load", "ready"}
    /\ IF ~SyncMessageGuard(telegramBot, config)
       THEN /\ inbound' = Append(inbound, [from |-> "whatsapp", outcome |-> "returned",
                                           persisted |-> DbChatOf(dbChat, j) # {}])
            /\ UNCHANGED <<chatMappings, dbChat, topicsLive, created>>
       ELSE IF MapHas(chatMappings, j)
       THEN /\ inbound' = Append(inbound, [from |-> "whatsapp", outcome |-> "relayed",
                                           persisted |-> DbChatOf(dbChat, j) # {}])
            /\ UNCHANGED <<chatMappings, dbChat, topicsLive, created>>
       ELSE /\ Len(created) < MaxTopics
            /\ inbound' = Append(inbound, [from |-> "whatsapp", outcome |-> "created",
                                           persisted |-> DbChatOf(dbChat, j) # {}])
            /\ created' = Append(created, [jid |-> j, fresh |-> TRUE, replaces |-> None])
            /\ topicsLive' = topicsLive \cup {Len(created) + 1}
            /\ IF collection
               THEN /\ dbChat' = DbUpsertChat(dbChat, j, Len(created) + 1)
                    /\ chatMappings' = MapSet(chatMappings, j, Len(created) + 1)
               ELSE UNCHANGED <<dbChat, chatMappings>>
    /\ UNCHANGED <<proc, rIdx, toRecreate>>
    /\ UNCHANGED <<queueVars, gateVars, revokeVars, startVars, timerVars, syncVars, userVars, replyVars, pollVars, receiptVars, ephemeralVars, shutdownVars, mentionVars>>

\* The 'message' listener (lines 449-471, registered by setupTelegramHandlers)
\* and handleTelegramMessage lines 1609-1617 for a message of the owner in
\* topic t: without a chat for the topic in the cache the message is dropped.
BootTelegramMessage(t) ==
    /\ Len(inbound) < MaxInbound
    /\ handlersSet
    /\ t \in topicsLive
    /\ inbound' = Append(inbound,
                     [from |-> "telegram",
                      outcome |-> IF FindWhatsAppJidByTopic(chatMappings, t) = NoJid
                                  THEN "dropped" ELSE "relayed",
                      persisted |-> \E r \in dbChat : r.topic = t])
    /\ UNCHANGED <<topicVars, queueVars, gateVars, revokeVars, startVars, timerVars, syncVars, userVars, replyVars, pollVars, receiptVars, ephemeralVars, shutdownVars, mentionVars>>

BootNext ==
    \/ Initialize
    \/ InitializeDatabaseDone
    \/ EnsureDirDone
    \/ RegisterBotCommandsDone
    \/ LoadMappingsDone
    \/ \E j \in JIDs : BootSyncMessage(j)
    \/ \E t \in 1..MaxTopics : BootTelegramMessage(t)

\* ======================================================================
\* The bridge after initialize has run with a valid configuration.
Init == TopicInit /\ QueueInit /\ GateInit /\ RevokeInit /\ StartInit /\ TimerInit /\ SyncInit
        /\ UserInit /\ ReplyInit /\ BootInit /\ PollInit /\ ReceiptInit /\ EphemeralInit /\ ShutdownInit /\ MentionInit

\* The same bridge over a collection without 'ephemeral' documents, or with
\* one for the private chat.
EphemeralStart ==
    /\ TopicInit /\ QueueInit /\ GateInit /\ RevokeInit /\ StartInit /\ TimerInit /\ SyncInit
    /\ UserInit /\ ReplyInit /\ BootInit /\ PollInit /\ ReceiptInit /\ ShutdownInit /\ MentionInit
    /\ EphemeralCacheInit
    /\ dbEphemeral \in {[j \in JIDs |-> NoSetting],
                        [j \in JIDs |-> IF j = PrivateJid
                                        THEN [enabled |-> TRUE, timer |-> 86400]
                                        ELSE NoSetting]}

\* The bridge as its constructor leaves it: nobody is authorized yet.
Constructed ==
    /\ TopicInit /\ QueueInit /\ RevokeInit /\ StartConstructed /\ TimerInit /\ SyncInit
    /\ UserInit /\ ReplyInit /\ BootInit /\ PollInit /\ ReceiptInit /\ EphemeralInit /\ ShutdownInit /\ MentionInit
    /\ authorizedUsers = {}
    /\ blockedUsers = {}
    /\ rateLimiter = [u \in Users |-> NoEntry]
    /\ now = 0
    /\ calls = [u \in Users |-> [start |-> 0, n |-> 0]]
    /\ last = NoMessage

\* TelegramBridge.js: the topic lifecycle under concurrent handlers.
TopicSpec == Init /\ [][TopicNext]_vars

\* telegram/bridge.js: the message queue, its producers and its consumer.
QueueSpec == Init /\ [][QueueNext]_vars

\* telegram/bridge.js: the queue and the call handler beside it.
BridgeSpec == Init /\ [][BridgeNext]_vars

\* The same, with the scheduling the code relies on: setInterval keeps firing
\* the callback, and every started task's awaits are answered.
FairQueueSpec ==
    /\ QueueSpec
    /\ WF_vars(Tick)
    /\ \A t \in Tasks : WF_vars(TaskProgress(t))

\* TelegramBridge.js: the topic lifecycle when no store call fails.
ReliableTopicSpec == Init /\ [][ReliableTopicNext]_vars

\* TelegramBridge.js: authorization, rate limiting and the owner's commands.
GateSpec == Init /\ [][GateNext]_vars

\* TelegramBridge.js: initialize, from construction, under any configuration.
StartSpec == Constructed /\ [][StartNext]_vars

\* TelegramBridge.js: the typing, read-receipt and call-notification timers.
TimerSpec == Init /\ [][TimerNext]_vars

\* The content relay from WhatsApp to Telegram, one message at a time.
SyncSpec == Init /\ [][SyncNext]_vars

\* TelegramBridge.js: createUserMapping for the incoming messages.
UserSpec == Init /\ [][UserNext]_vars

\* The relay of single messages with their acknowledgement, both directions.
ReplySpec == Init /\ [][ReplyNext]_vars

\* TelegramBridge.js: initialize at a restart, with inbound events at any step.
BootSpec == Restarted /\ [][BootNext]_vars

\* TelegramBridge.js: polling errors and the restarts they cause.
PollSpec == Init /\ [][PollNext]_vars

\* TelegramBridge.js: the read receipts of one chat, key by key.
ReceiptSpec == Init /\ [][ReceiptNext]_vars

\* TelegramBridge.js: /ephemeral and the reload of the settings.
EphemeralSpec == EphemeralStart /\ [][EphemeralNext]_vars

\* telegram/bridge.js: the queue and the timers beside shutdown.
ShutdownSpec == Init /\ [][ShutdownNext]_vars

\* TelegramBridge.js: mention broadcasts of one group.
MentionSpec == Init /\ [][MentionNext]_vars

\* TelegramBridge.js: the message index, revoke buttons and reactions.
RevokeSpec == Init /\ [][RevokeNext]_vars

Next == TopicNext \/ BridgeNext \/ GateNext \/ RevokeNext \/ StartNext \/ TimerNext \/ SyncNext \/ UserNext
        \/ ReplyNext \/ BootNext \/ PollNext \/ ReceiptNext \/ EphemeralNext \/ ShutdownNext \/ MentionNext
Spec == Init /\ [][Next]_vars

\* ======================================================================
\* Properties of src/TelegramBridge.js (TopicSpec)
\* ======================================================================

\* C1: however many events arrive for one unmapped chat, createForumTopic is
\* called for a first contact at most once per chat, and the durable store
\* holds at most one 'chat' mapping for it.
OneTopicPerNewChat ==
    \A j \in JIDs :
        /\ Cardinality({t \in TopicsFor(j) : created[t].fresh}) <= 1
        /\ Cardinality(DbChatOf(dbChat, j)) <= 1

\* C2: a chat has at most one mapping in the cache and at most one in the
\* durable store, and while no save or purge for the chat is in flight the
\* two name the same topic (or both name none).
CacheMatchesStore ==
    \A j \in JIDs :
        /\ Cardinality({i \in 1..Len(chatMappings) : chatMappings[i].jid = j}) <= 1
        /\ Cardinality(DbChatOf(dbChat, j)) <= 1
        /\ (~\E p \in Procs : proc[p].jid = j /\ proc[p].pc \in {"purge", "rPurge", "save"})
              => LET dbTopic == IF DbChatOf(dbChat, j) = {} THEN None
                                ELSE (CHOOSE r \in DbChatOf(dbChat, j) : TRUE).topic
                 IN MapGet(chatMappings, j) = dbTopic

\* C3: a mapping whose probe failed is replaced at most once, whichever of
\* getOrCreateTopic and recreateMissingTopics notice it, and the message that
\* triggered the replacement goes to the new topic and to no other.
ReplacedOnce ==
    /\ \A s \in 1..Len(created) :
          Cardinality({t \in 1..Len(created) : created[t].replaces = s}) <= 1
    /\ \A p \in Handlers :
          (proc[p].pc = "done" /\ proc[p].stale # None /\ proc[p].newTopic # None)
             => proc[p].sent \in {None, proc[p].newTopic}

\* C4: getOrCreateTopic for a mapped chat probes the topic it read from the
\* cache.  When the probe succeeds it returns that id and leaves the cache, the
\* durable store and the set of topics as they are; when the probe fails it
\* deletes the cache entry at once and the durable record next, and only then
\* goes on to createForumTopic.
ProbeThenReuseOrPurge ==
    [][\A p \in Procs :
          /\ (proc[p].pc # "verify" /\ proc'[p].pc = "verify")
                => /\ MapHas(chatMappings, proc'[p].jid)
                   /\ proc'[p].topicId = MapGet(chatMappings, proc'[p].jid)
                   /\ UNCHANGED <<chatMappings, created>>
          /\ (proc[p].pc = "verify" /\ proc'[p] # proc[p])
                => \/ /\ proc[p].topicId \in topicsLive
                      /\ proc'[p].pc \in {"relay", "rSleep"}
                      /\ proc'[p].ret = proc[p].topicId
                      /\ UNCHANGED <<chatMappings, dbChat, created>>
                   \/ /\ proc'[p].pc = "purge"
                      /\ proc'[p].stale = proc[p].topicId
                      /\ ~MapHas(chatMappings', proc[p].jid)
                      /\ UNCHANGED <<dbChat, created>>
          /\ (proc[p].pc = "purge" /\ proc'[p].pc = "createTopic")
                => /\ DbChatOf(dbChat', proc[p].jid) = {}
                   /\ UNCHANGED created
      ]_vars

\* C4 happens: a handler whose probe failed has purged the mapping from the
\* cache and the durable store and is about to create the replacement.
PurgedBeforeCreate ==
    \E p \in Handlers :
        /\ proc[p].pc = "createTopic"
        /\ proc[p].stale # None
        /\ ~MapHas(chatMappings, proc[p].jid)
        /\ DbChatOf(dbChat, proc[p].jid) = {}

\* C5: a probe that fails for a transient reason, the topic still being there,
\* neither purges the mapping nor leads to a second topic: whatever is purged
\* or replaced is a topic that no longer exists.
OnlyMissingTopicsPurged ==
    /\ \A p \in Procs :
          proc[p].pc \in {"purge", "rPurge"} => proc[p].stale \notin topicsLive
    /\ \A t \in 1..Len(created) :
          created[t].replaces # None => created[t].replaces \notin topicsLive

\* ======================================================================
\* Properties of src/telegram/bridge.js
\* ======================================================================

\* C6 (QueueSpec): at most one queued task is in progress; the interval
\* callback starts a task only while isProcessingQueue is false; and the flag
\* stays true for as long as the started task has not settled.
OneTaskInProgress ==
    /\ [](Cardinality(Running) <= 1 /\ (Running # {} => isProcessingQueue))
    /\ [][started' # started => ~isProcessingQueue]_vars

\* C6 happens: a task is in progress while another one waits in the queue.
TaskWaitsBehindRunning ==
    /\ Running # {}
    /\ messageQueue # <<>>
    /\ isProcessingQueue

\* C7 (QueueSpec): tasks are started in the order they were pushed (tasks are
\* numbered by their push), and what waits in the queue is in push order too.
StartedInPushOrder ==
    /\ \A i \in 1..Len(started) : started[i] = i
    /\ \A i \in 1..Len(messageQueue) : messageQueue[i] = Len(started) + i

\* C7 happens: two tasks have been started while a third one was waiting.
SeveralStartedInOrder ==
    /\ Len(started) >= 2
    /\ messageQueue # <<>>

\* C8 (FairQueueSpec): a task whose promise rejects does not stop the
\* consumer: once it has settled the flag is false again, and a task that
\* waits in the queue at that time is started later.
RejectionDoesNotStall ==
    /\ []((Running = {} /\ \E t \in Tasks : bproc[t].pc = "rejected")
             => ~isProcessingQueue)
    /\ \A u \in Tasks :
          ((\E t \in Tasks : bproc[t].pc = "rejected") /\ bproc[u].pc = "queued")
             ~> (\E i \in 1..Len(started) : started[i] = u)

\* C8 happens: a task has rejected and a task pushed after it has been started.
StartedAfterRejection ==
    \E i, k \in 1..Len(started) :
        /\ i < k
        /\ bproc[started[i]].pc = "rejected"
        /\ bproc[started[k]].pc # "queued"

\* C9 (FairQueueSpec): with the interval callback firing again and again and
\* every started task settling, every pushed task is eventually started, and
\* no task is started twice.
EveryTaskStartedOnce ==
    /\ [](\A i, k \in 1..Len(started) : started[i] = started[k] => i = k)
    /\ \A t \in Tasks :
          (bproc[t].pc = "queued") ~> (\E i \in 1..Len(started) : started[i] = t)

\* C9 happens: every task that was pushed has been started.
AllTasksStarted ==
    /\ Len(started) = MaxTasks
    /\ messageQueue = <<>>

\* C10 (BridgeSpec): getOrCreateTopic runs only inside a queue task, so at most
\* one invocation is in progress at a time, and for every chat, 'call@broadcast'
\* of handleCallNotification included, at most one topic is created.
TopicCreationSerialized ==
    /\ Cardinality(InGetOrCreateTopic) <= 1
    /\ \A j \in JIDs \cup {CallJid} :
          Cardinality({i \in 1..Len(bCreated) : bCreated[i] = j}) <= 1

\* ======================================================================
\* Properties of the access gate of src/TelegramBridge.js (GateSpec)
\* ======================================================================

\* C11: for every user, within one window the first MaxCount calls of
\* checkRateLimit return true and every further call returns false; a
\* rejected message gets exactly one notice and is not relayed; the first call
\* after the window has expired returns true and starts a fresh window with
\* count 1.
RateLimitContract ==
    /\ \A u \in Users :
          calls[u].n > 0 =>
             rateLimiter[u] =
                [count |-> IF calls[u].n <= MaxCount THEN calls[u].n ELSE MaxCount,
                 resetTime |-> calls[u].start + WindowMs]
    /\ last.result \in {"passed", "limited"} =>
          /\ (last.result = "passed") <=> (calls[last.user].n <= MaxCount)
          /\ (last.result = "limited") => (last.notices = 1 /\ ~last.relayed)
          /\ (last.result = "passed") => (last.notices = 0 /\ last.relayed)

\* C11 happens: a user's message beyond the limit has been rejected, after
\* time has passed and an earlier window of that user has expired.
RejectedInLaterWindow ==
    /\ last.result = "limited"
    /\ calls[last.user].n > MaxCount
    /\ calls[last.user].start > WindowMs

\* C12: the message handler evaluates authorization before the rate limit: the
\* message of an unauthorized sender is dropped and leaves rateLimiter as it
\* was.
AuthorizationBeforeRateLimit ==
    [][\A u \in Users :
          (~IsAuthorized(u) /\ last' # last /\ last'.user = u)
             => /\ last'.result = "dropped"
                /\ rateLimiter' = rateLimiter
                /\ calls' = calls
      ]_vars

\* C12 happens: the message of a user who has been unauthorized, and who has a
\* rate limiter entry from before, has been dropped.
DroppedWithLimiterEntry ==
    /\ last.result = "dropped"
    /\ ~IsAuthorized(last.user)
    /\ rateLimiter[last.user] # NoEntry

OwnerAlwaysAuthorized ==
    /\ Owner \in authorizedUsers
    /\ IsAuthorized(Owner)

\* ======================================================================
\* Properties of the message index and revocation (RevokeSpec)
\* ======================================================================

\* C14: a request the authorization gate rejects is dropped silently: nothing
\* (message, alert, callback answer) is sent back to the requester.
RejectedSilently == replies = {}

\* C17: for one revoke button the WhatsApp delete is issued at most once, under
\* any sequence or interleaving of presses.
DeleteIssuedOnce == \A b \in Relays : deletes[b] <= 1

\* C18: after a message has been relayed successfully the index resolves in
\* both directions: its Telegram message id gives its WhatsApp key, and its
\* WhatsApp key gives its Telegram message id.
IndexResolvesBothWays ==
    \A m \in Relays :
        rproc[m].pc = "relayed" =>
            /\ Resolve(messageIdMapping, m) = WaKey(m)
            /\ Resolve(messageIdMapping, WaKey(m)) = m

\* C20: when the durable write of a mapping fails, the in-memory cache is
\* still updated, so that a later read of the cache returns the new value.
CacheUpdatedWhenWriteFails ==
    \A m \in Relays :
        (rproc[m].pc = "relayed" /\ ~rproc[m].saved)
            => Resolve(messageIdMapping, m) = WaKey(m)

\* ======================================================================
\* Properties of the Telegram handlers of src/telegram/bridge.js (QueueSpec)
\* ======================================================================

\* C15: no message that came from Telegram leads to a WhatsApp send unless its
\* sender passed the authorization gate: every Telegram task whose send to
\* WhatsApp has been made comes from an authorized user.
OnlyAuthorizedReachWhatsApp ==
    \A t \in Tasks :
        (bproc[t].kind = "tg" /\ bproc[t].pc = "tgReact")
            => (bproc[t].from \in Users /\ IsAuthorized(bproc[t].from))

\* ======================================================================
\* Properties of the mapping store of src/TelegramBridge.js (ReliableTopicSpec)
\* ======================================================================

\* C19: after any sequence of successful saveChatMapping calls and purges,
\* none of them still in flight, clearing chatMappings and running
\* loadMappingsFromDb gives back the content chatMappings held.
RoundTripReproducesCache ==
    (\A p \in Procs : proc[p].pc \notin {"save", "purge", "rPurge"})
        => MapEntries(LoadMappingsFromDb(<<>>, dbChat)) = MapEntries(chatMappings)

\* ======================================================================
\* Properties of failed topic creation in src/TelegramBridge.js (TopicSpec)
\* ======================================================================

\* The step in which createForumTopic rejects for invocation p: the catch at
\* line 1202 is entered and no topic has been made.
CreateTopicFailed(p) ==
    /\ proc[p].pc = "createTopic"
    /\ proc'[p].pc # "createTopic"
    /\ created' = created

\* C21: when createForumTopic fails, getOrCreateTopic returns null, the relay
\* handler that called it ends without relaying and without throwing, and no
\* mapping for that JID is left in the cache or in the durable store.
FailedCreationLeavesNoMapping ==
    [][\A p \in Procs :
          CreateTopicFailed(p)
             => /\ proc'[p].ret = None
                /\ p \in Handlers => (proc'[p].pc = "done" /\ proc'[p].sent = None)
                /\ ~MapHas(chatMappings', proc[p].jid)
                /\ DbChatOf(dbChat', proc[p].jid) = {}
      ]_vars

\* ======================================================================
\* Properties of the start-up of src/TelegramBridge.js (StartSpec)
\* ======================================================================

\* The bot token or the chat id is missing or is a placeholder.
BadCredentials ==
    \/ config.botToken \in {Unset, Missing, <<"YOUR_BOT_TOKEN">>, <<"<", "YOUR_BOT_TOKEN", ">">>}
    \/ config.chatId \in {Unset, Missing, <<"YOUR_CHAT_ID">>, <<"-100", "YOUR_CHAT_ID">>}

\* C22: with a missing or placeholder bot token or chat id, initialize does
\* nothing at all (no database, no bot, no handlers, nobody authorized), and
\* syncMessage afterwards relays nothing and changes no state.
NoInitializationWithoutCredentials ==
    BadCredentials =>
        /\ ipc \in {"new", "skipped"}
        /\ ~collection /\ ~telegramBot /\ ~handlersSet
        /\ authorizedUsers = {}
        /\ synced = 0

\* C22 happens: initialize has returned at the configuration test, with a
\* placeholder token, and syncMessage has been called since.
SyncAfterSkippedInitialize ==
    /\ ipc = "skipped"
    /\ config.botToken = <<"<", "YOUR_BOT_TOKEN", ">">>
    /\ config.enabled
    /\ syncCalls = MaxSyncs

\* ======================================================================
\* Properties of the debounce timers of src/TelegramBridge.js (TimerSpec)
\* ======================================================================

\* C23: the typing-pause timer is owned per chat: every chat shown as typing
\* keeps its own pending pause timer until that timer fires, whatever typing
\* events other chats have, and no chat has more than one.
PauseTimerPerChat ==
    /\ \A j \in awaitingPause : PendingTimers("pause", j) # {}
    /\ \A j \in JIDs : Cardinality(PendingTimers("pause", j)) <= 1

\* C24: at most one read-receipt timer is pending per chat.
OneReadTimerPerChat ==
    \A j \in JIDs : Cardinality(PendingTimers("read", j)) <= 1

\* C25: for one call key at most one notification is sent for the events of
\* one 30-second window (the time from the key's first event until its timer
\* fires), under any interleaving of the call events.
OneCallNoticePerWindow ==
    \A i, k \in 1..Len(callNotices) : callNotices[i] = callNotices[k] => i = k

\* C25 happens: of two events for one call key within one window, the first
\* has been notified and the second has been dropped.
SecondCallDropped ==
    \E c, d \in CallEvents :
        /\ callProc[c].pc = "done" /\ callProc[d].pc = "dropped"
        /\ callProc[c].key = callProc[d].key /\ callProc[c].epoch = callProc[d].epoch
        /\ \E i \in 1..Len(callNotices) : callNotices[i].key = callProc[d].key

\* ======================================================================
\* Properties of the content relay from WhatsApp to Telegram (SyncSpec)
\* ======================================================================
\* The variants in the order video-note, image, video, audio, document,
\* sticker, location, contact, text.
VariantOrder == <<"video_note", "image", "video", "audio", "document", "sticker",
                  "location", "contact", "text">>
\* A message matches a variant when the payload field of the variant is
\* populated (for a video note: ptvMessage, or videoMessage with ptv), and
\* text when it has text.
Matches(m, variant) ==
    CASE variant = "video_note" ->
             "ptvMessage" \in m.payloads \/ ("videoMessage" \in m.payloads /\ m.ptv)
      [] variant = "image" -> "imageMessage" \in m.payloads
      [] variant = "video" -> "videoMessage" \in m.payloads
      [] variant = "audio" -> "audioMessage" \in m.payloads
      [] variant = "document" -> "documentMessage" \in m.payloads
      [] variant = "sticker" -> "stickerMessage" \in m.payloads
      [] variant = "location" -> "locationMessage" \in m.payloads
      [] variant = "contact" -> "contactMessage" \in m.payloads
      [] variant = "text" -> m.text # <<>>
\* The first variant of the order the message matches (for a message with a
\* payload or text).
FirstMatch(m) ==
    VariantOrder[CHOOSE i \in 1..Len(VariantOrder) :
                    /\ Matches(m, VariantOrder[i])
                    /\ \A k \in 1..(i - 1) : ~Matches(m, VariantOrder[k])]

\* C26: for every event with a payload or text the relay invokes exactly one
\* adapter, and it is the adapter of the first variant the event matches in the
\* order video-note, image, video, audio, document, sticker, location, contact,
\* text.
FirstMatchWins ==
    (sync.pc \in {"adapter", "done"} /\ (sync.msg.payloads # {} \/ sync.msg.text # <<>>))
        => /\ Len(adapters) = 1
           /\ adapters[1].variant = FirstMatch(sync.msg)

\* C29: a group text with '@all' or '@everyone' makes syncMessage run the
\* mention sub-flow and still hand the message to the relay, whether the
\* broadcast went out or failed; any other message never starts the sub-flow
\* and so never causes a mention broadcast.
MentionThenRelay ==
    (sync.by = "syncMessage" /\ sync.pc \in {"adapter", "done"})
        => /\ MentionsAll(sync.msg) =>
                  (mention \in {"fetchFailed", "sendFailed", "sent"} /\ Len(adapters) = 1)
           /\ ~(sync.msg.text # <<>> /\ sync.msg.sender = GroupJid
                 /\ (Includes(sync.msg.text, "@all") \/ Includes(sync.msg.text, "@everyone")))
                 => mention = "none"

\* C29 happens: the broadcast of a group text with a token has failed and the
\* text has been relayed to the topic all the same.
RelayedAfterFailedBroadcast ==
    /\ sync.by = "syncMessage" /\ sync.pc = "done"
    /\ sync.msg.sender = GroupJid /\ sync.msg.text = <<"hi", "@all">>
    /\ mention = "sendFailed"
    /\ adapters = <<[adapter |-> "sendSimpleMessage", variant |-> "text"]>>

\* C32: when getOrCreateTopic has returned null for an incoming event,
\* syncMessage makes no Telegram send call for it.
NoSendWithoutTopic ==
    (sync.by = "syncMessage" /\ sync.topicId = None) => sync.sends = <<>>

\* ======================================================================
\* Properties of the user mappings of src/TelegramBridge.js (UserSpec)
\* ======================================================================
\* The messages of a participant that createUserMapping has handled.
HandledOf(P) == {m \in UserMsgs : uproc[m].pc = "done" /\ uproc[m].participant = P}
\* The first message of a participant.
FirstOf(P) == CHOOSE m \in UserMsgs :
                  /\ uproc[m].participant = P
                  /\ \A k \in UserMsgs : uproc[k].participant = P => m <= k

\* C27: once k >= 1 incoming messages of a participant have been handled (and
\* none of its messages is still being handled), userMappings has an entry for
\* the participant with messageCount k and the firstSeen of the first message.
UserMappingCountsMessages ==
    \A P \in ParticipantJids :
        (HandledOf(P) # {} /\ \A m \in UserMsgs : uproc[m].participant = P => uproc[m].pc = "done")
            => /\ userMappings[P] # None
               /\ userData[userMappings[P]].messageCount = Cardinality(HandledOf(P))
               /\ userData[userMappings[P]].firstSeen = FirstOf(P)

\* ======================================================================
\* Properties of the relay of one message with its acknowledgement (ReplySpec)
\* ======================================================================

\* C28: every Telegram topic message of a mapped chat whose handling has ended
\* without a confirmed WhatsApp send (a rejection, a result without key id, or
\* content no branch handles) has got the failure reaction last.
UnconfirmedGetsFailureReaction ==
    \A n \in TgMsgs :
        (tproc[n].by \in {"TelegramBridge", "bridge"} /\ tproc[n].pc = "done"
            /\ tproc[n].wa = "none")
            => /\ tproc[n].reactions # <<>>
               /\ tproc[n].reactions[Len(tproc[n].reactions)] = "cross"

\* C30: a sticker that could not be sent natively still reaches the destination
\* in another form: from WhatsApp a PNG photo arrives in the topic (when the
\* conversion and the photo send succeed), and from Telegram the sticker
\* content arrives in the WhatsApp chat.
StickerFallbackDelivers ==
    \A n \in TgMsgs :
        (tproc[n].pc = "done" /\ tproc[n].kind = "sticker" /\ tproc[n].native = "failed")
            => /\ (tproc[n].by = "handleWhatsAppMedia" /\ tproc[n].fallback = "ok")
                     => tproc[n].topic = "photo"
               /\ tproc[n].by = "TelegramBridge" => tproc[n].wa # "none"

\* ======================================================================
\* Properties of a restart of src/TelegramBridge.js (BootSpec)
\* ======================================================================

\* C31: no inbound event meets the caches before loadMappingsFromDb has filled
\* them: a WhatsApp message of a chat whose mapping is in the store never
\* creates a topic, and a Telegram message in a topic whose mapping is in the
\* store is never dropped as unmapped.
NoEventBeforeMappingsLoaded ==
    \A i \in 1..Len(inbound) :
        inbound[i].persisted => inbound[i].outcome \notin {"created", "dropped"}

\* ======================================================================
\* Properties of the polling-error recovery of src/TelegramBridge.js (PollSpec)
\* ======================================================================

\* C33: at most one restartTelegramBot is in progress at any time, also when
\* polling errors arrive during a restart, and no more than one bot instance
\* polls.
OneRestartOnePollingBot ==
    /\ Cardinality({r \in Restarts : restartProc[r].pc \in {"stopping", "waiting"}}) <= 1
    /\ Cardinality({b \in Bots : pollers[b] = "polling"}) <= 1

\* ======================================================================
\* Properties of the read receipts of src/TelegramBridge.js (ReceiptSpec)
\* ======================================================================

\* C34: no queued key is discarded unread: every key passed to
\* queueMessageForReadReceipt has been included in a successful readMessages
\* call, or is still in the chat's queue, or is in the array of a readMessages
\* call that has not been answered.
NoQueuedKeyDiscarded ==
    \A k \in QueuedKeys :
        \/ k \in readKeys
        \/ k \in SeqRange(receiptArrays[receiptQueue])
        \/ \E p \in Keys :
              \/ receiptProc[p].pc = "called" /\ k \in SeqRange(receiptArrays[receiptProc[p].arr])
              \/ receiptProc[p].pc = "sent" /\ k \in SeqRange(receiptProc[p].sent)

\* ======================================================================
\* The two reactions of one handling (ReplySpec)
\* ======================================================================

\* C35: in one handling of a Telegram topic message by TelegramBridge.js, once
\* the success reaction is set no later step sets the failure reaction.
NoFailureAfterSuccess ==
    \A n \in TgMsgs :
        tproc[n].by = "TelegramBridge" =>
            \A i, j \in 1..Len(tproc[n].reactions) :
                i < j => ~(tproc[n].reactions[i] = "thumbsUp" /\ tproc[n].reactions[j] = "cross")

\* ======================================================================
\* The two mapping caches of src/telegram/bridge.js (BridgeSpec)
\* ======================================================================

\* C36: in every reachable state topicMappings is the exact inverse of
\* chatMappings: a chat is mapped to a topic exactly when that topic is mapped
\* to the chat.
TopicMappingsInverse ==
    /\ \A j \in DOMAIN bChatMappings :
          bChatMappings[j] # None => topicMappings[bChatMappings[j]] = j
    /\ \A t \in DOMAIN topicMappings :
          topicMappings[t] # NoJid => bChatMappings[topicMappings[t]] = t

\* ======================================================================
\* Properties of the ephemeral settings of src/TelegramBridge.js
\* (EphemeralSpec)
\* ======================================================================

\* C37: a setting changed through /ephemeral is persisted: when the cache has
\* been cleared and loaded from the collection after the change, every chat
\* has the setting (enabled and timer) that /ephemeral left for it.
EphemeralSettingPersisted ==
    ephemeralLoaded =>
        \A j \in JIDs :
            ephemeralSet[j].touched => ephemeralSettings[j] = ephemeralSet[j].setting

\* ======================================================================
\* Properties of shutdown of src/telegram/bridge.js (ShutdownSpec)
\* ======================================================================

\* C38: after shutdown has completed no further queued task is started and no
\* timer-driven side effect (queue tick, contact-sync tick, typing reset) is
\* executed.
QuietAfterShutdown ==
    [][shutdownPc = "complete" =>
          /\ started' = started
          /\ contactSyncTicks' = contactSyncTicks
          /\ typingResets' = typingResets]_vars

\* ======================================================================
\* Properties of the mention broadcast of src/TelegramBridge.js (MentionSpec)
\* ======================================================================

\* C39: when handleMentionAll had no cached participants and fetched the list,
\* the broadcast it then sends mentions exactly the fetched participants other
\* than the bridge's own user.
BroadcastMentionsFetched ==
    \A n \in MentionCalls :
        (mentionProc[n].pc = "sent" /\ mentionProc[n].didFetch) =>
            mentionProc[n].mentions = OtherParticipants(mentionProc[n].fetched)

\* ======================================================================
\* Own messages and the thread mappings (TopicSpec)
\* ======================================================================

\* C40: an outgoing (fromMe) WhatsApp message for a non-status chat never
\* creates a topic or a thread mapping: every step of its handling leaves
\* chatMappings, the durable 'chat' records and the topics alone, and it is
\* relayed only when the chat has a mapping, to the mapped topic.
OutgoingCreatesNothing ==
    [][\A p \in Handlers :
          (proc'[p].fromMe /\ proc'[p] # proc[p]) =>
              /\ chatMappings' = chatMappings
              /\ dbChat' = dbChat
              /\ created' = created
              /\ topicsLive' = topicsLive
              /\ proc'[p].pc \in {"relay", "done"}
              /\ proc'[p].pc = "relay" =>
                    /\ MapHas(chatMappings, proc'[p].jid)
                    /\ proc'[p].ret = MapGet(chatMappings, proc'[p].jid)
              /\ proc'[p].sent # None =>
                    /\ proc[p].pc = "relay"
                    /\ proc'[p].sent = proc[p].ret]_vars

\* An own message has been relayed to the topic its chat is mapped to.
OutgoingRelayed ==
    \E p \in Handlers : proc[p].fromMe /\ proc[p].pc = "done" /\ proc[p].sent # None
====
